---- MODULE Spec2Model ----
(***************************************************************************)
(* State-machine model of the solarma_vault program: the Alarm / Vault     *)
(* accounts, the wallets that receive vault lamports, the consumed permit  *)
(* nonces, the cluster clock, and one action per instruction.              *)
(*                                                                         *)
(* Each instruction is modelled in three stages, as Anchor runs it:        *)
(*   1. the #[derive(Accounts)] constraints (X_accounts),                  *)
(*   2. the handler body (process_X), which returns its error code and the *)
(*      account contents it had written when it returned,                  *)
(*   3. the exit stage (`close = ...`) and the runtime's commit: the       *)
(*      writes of a call are kept only when the call returned Ok.          *)
(*                                                                         *)
(* Option<T> is modelled as a set with at most one element.                *)
(* TLC integers are 32 bits wide, so u64 / i64 are modelled WordBits wide: *)
(* U64_MAX and I64_MAX keep their roles as the overflow thresholds of the  *)
(* checked_* operations.                                                   *)
(***************************************************************************)
EXTENDS Integers, FiniteSets, Sequences, TLC

\* ------------------------------------------------------------------ bounds
WordBits == 30
TickSeconds == 60
MaxTicks == 32
MinBalance == 1000
PermitMinBalance == 700
InitialWallet == 3000000
MaxNonce == 2
MaxExpectedCount == 6
MaxProbeTime == 6
MaxPairTicks == 5

U64_MAX == (2^(WordBits - 1) - 1) * 2 + 1
I64_MAX == U64_MAX \div 2
MaxTime == MaxTicks * TickSeconds

\* --------------------------------------------------------------- constants
DEFAULT_SNOOZE_PERCENT == 10
MAX_SNOOZE_COUNT == 10
MIN_DEPOSIT_LAMPORTS == 1000000
EMERGENCY_REFUND_PENALTY_PERCENT == 5
DEFAULT_SNOOZE_EXTENSION_SECONDS == 300
CLAIM_GRACE_SECONDS == 120
BUDDY_ONLY_SECONDS == 120
BURN_SINK == "1nc1nerator"
ATTESTATION_PUBKEY == "attestation_key"
ATTESTATION_CLUSTER == "devnet"
ATTESTATION_DOMAIN == "solarma"
ATTESTATION_ACTION_ACK == "ack"
PROGRAM_ID == "F54LpWS9"
ED25519_PROGRAM_ID == "Ed25519SigVerify"
DefaultPubkey == "11111111"

\* ------------------------------------------------------------ Option<T>
None == {}
Some(x) == {x}
IsSome(o) == o # {}
IsNone(o) == o = {}
Unwrap(o) == CHOOSE x \in o : TRUE

Min(a, b) == IF a <= b THEN a ELSE b

\* --------------------------------------------------- checked arithmetic
\* u64::checked_mul
checked_mul(a, b) == IF b = 0 \/ a <= U64_MAX \div b THEN Some(a * b) ELSE None
\* u64::checked_div
checked_div(a, b) == IF b = 0 THEN None ELSE Some(a \div b)
\* u64::checked_sub
checked_sub(a, b) == IF a >= b THEN Some(a - b) ELSE None
\* u64::saturating_sub
saturating_sub(a, b) == IF a >= b THEN a - b ELSE 0
\* 1u64.checked_shl(n): None when n is not less than the width
checked_shl_one(n) == IF n >= WordBits THEN None ELSE Some(2^n)
\* i64::checked_add with a non-negative right operand
checked_add_i64(a, b) == IF a > I64_MAX - b THEN None ELSE Some(a + b)
\* u8::checked_add
checked_add_u8(a, b) == IF a + b > 255 THEN None ELSE Some(a + b)

\* ------------------------------------------------------------------ state.rs
AlarmStatus == {"Created", "Acknowledged", "Claimed", "Slashed"}

PenaltyRoute_try_from(value) ==
    CASE value = 0 -> Some("Burn")
      [] value = 1 -> Some("Donate")
      [] value = 2 -> Some("Buddy")
      [] OTHER -> None

\* An account of type Alarm before `init`: every field at its Default.
DefaultAlarm ==
    [ init |-> FALSE,
      owner |-> DefaultPubkey,
      alarm_time |-> 0,
      deadline |-> 0,
      initial_amount |-> 0,
      remaining_amount |-> 0,
      penalty_route |-> 0,
      penalty_destination |-> None,
      snooze_count |-> 0,
      status |-> "Created" ]

\* A Vault account: open (initialized, holding lamports) or closed.
ClosedVault == [ open |-> FALSE, lamports |-> 0 ]

\* ---------------------------------------------------------------- helpers.rs
\* Mutant: the cost is not capped at the remaining amount.
snooze_cost_uncapped(remaining_amount, snooze_count) ==
    LET m == checked_mul(remaining_amount, DEFAULT_SNOOZE_PERCENT) IN
    IF IsNone(m) THEN None ELSE
    LET base == checked_div(Unwrap(m), 100) IN
    IF IsNone(base) THEN None ELSE
    LET multiplier == checked_shl_one(snooze_count) IN
    IF IsNone(multiplier) THEN None ELSE
    checked_mul(Unwrap(base), Unwrap(multiplier))

snooze_cost(remaining_amount, snooze_count) ==
    LET m == checked_mul(remaining_amount, DEFAULT_SNOOZE_PERCENT) IN
    IF IsNone(m) THEN None ELSE
    LET base == checked_div(Unwrap(m), 100) IN
    IF IsNone(base) THEN None ELSE
    LET multiplier == checked_shl_one(snooze_count) IN
    IF IsNone(multiplier) THEN None ELSE
    LET cost == checked_mul(Unwrap(base), Unwrap(multiplier)) IN
    IF IsNone(cost) THEN None ELSE
    Some(Min(Unwrap(cost), remaining_amount))

is_max_snooze(snooze_count) == snooze_count >= MAX_SNOOZE_COUNT

\* Mutant: the product saturates instead of reporting the overflow.
emergency_penalty_saturating(remaining_amount) ==
    LET m == checked_mul(remaining_amount, EMERGENCY_REFUND_PENALTY_PERCENT) IN
    IF IsNone(m) THEN Some(U64_MAX \div 100) ELSE checked_div(Unwrap(m), 100)

emergency_penalty(remaining_amount) ==
    LET m == checked_mul(remaining_amount, EMERGENCY_REFUND_PENALTY_PERCENT) IN
    IF IsNone(m) THEN None ELSE checked_div(Unwrap(m), 100)

validate_alarm_params(alarm_time, deadline, current_time, deposit_amount, penalty_route, penalty_destination) ==
    IF alarm_time <= current_time THEN "alarm_time_in_past"
    ELSE IF deadline <= alarm_time THEN "invalid_deadline"
    ELSE IF deposit_amount > 0 /\ deposit_amount < MIN_DEPOSIT_LAMPORTS
         THEN "deposit_too_small"
    ELSE LET route == PenaltyRoute_try_from(penalty_route) IN
         IF IsNone(route) THEN "invalid_penalty_route"
         ELSE IF /\ deposit_amount > 0
                 /\ Unwrap(route) \in {"Donate", "Buddy"}
                 /\ ~penalty_destination
              THEN "penalty_destination_required"
         ELSE "Ok"

is_claim_window(alarm_time, deadline, current_time) ==
    current_time >= alarm_time /\ current_time < deadline

\* Mutant: the slash window opens one second after the deadline.
is_slash_window_after(deadline, current_time) == current_time > deadline

is_slash_window(deadline, current_time) == current_time >= deadline

is_refund_window(alarm_time, current_time) == current_time < alarm_time

is_snooze_window(alarm_time, deadline, current_time) ==
    current_time >= alarm_time /\ current_time < deadline

\* Mutant: the deduction is capped at the whole balance, the rent-exempt
\* minimum included.
cap_at_rent_exempt_whole_balance(desired, current_lamports, min_balance) ==
    Min(desired, current_lamports)

cap_at_rent_exempt(desired, current_lamports, min_balance) ==
    LET available == saturating_sub(current_lamports, min_balance) IN
    Min(desired, available)

\* --------------------------------------------------------------- universe
Users == {"alice", "bob"}
Accounts == Users \cup {BURN_SINK}
AlarmIds == {1}
\* An Alarm PDA is addressed by (owner, alarm_id).
AlarmKeys == {"alice"} \X AlarmIds

VARIABLES
    now,        \* Clock::get()?.unix_timestamp
    alarms,     \* Alarm account of each (owner, alarm_id)
    vaults,     \* Vault account bound to each alarm
    lamports,   \* lamports of the wallets and of the burn sink
    permits,    \* PermitNonce accounts that exist: <<alarm key, nonce>>
    probe       \* a pure helper under test: its name, arguments and results

vars == <<now, alarms, vaults, lamports, permits, probe>>

NoProbe == [fn |-> "none", args |-> <<>>, out |-> <<>>]

Rent_minimum_balance == MinBalance
\* Rent::minimum_balance(PermitNonce::SIZE), paid by the payer of the `init`.
PermitNonce_minimum_balance == PermitMinBalance

Init ==
    /\ now = 0
    /\ alarms = [k \in AlarmKeys |-> DefaultAlarm]
    /\ vaults = [k \in AlarmKeys |-> ClosedVault]
    /\ lamports = [a \in Accounts |-> IF a = "alice" THEN InitialWallet ELSE 0]
    /\ permits = {}
    /\ probe = NoProbe

\* A call's view of the ledger: the accounts it was passed, as it has written
\* them so far, and its error code ("Ok" while no check has failed).
View(k) ==
    [ err |-> "Ok",
      alarm |-> alarms[k],
      vault |-> vaults[k],
      lamports |-> lamports,
      permits |-> permits ]

Err(L, code) == [L EXCEPT !.err = code]

\* `close = target`: at exit the vault's lamports go to target and the Vault
\* account ceases to exist.
\* Mutant: the vault's lamports are paid to the target but the Vault account
\* stays open with its balance.
CloseVault_keeps_open(L, target) ==
    IF L.err # "Ok" THEN L
    ELSE [L EXCEPT !.lamports[target] = @ + L.vault.lamports]

CloseVault(L, target) ==
    IF L.err # "Ok" THEN L
    ELSE [L EXCEPT !.lamports[target] = @ + L.vault.lamports,
                   !.vault = ClosedVault]

\* Mutant: the writes a call had made when it failed are kept.
Outcome_keeps_writes(L0, L) == L

\* Mutant: the Vault PDA is derived from the owner alone, so that the alarms of
\* one owner share a vault.
Commit_vault_per_owner(k, L) ==
    LET R == IF L.err = "Ok" THEN L ELSE [View(k) EXCEPT !.err = L.err] IN
    /\ alarms' = [alarms EXCEPT ![k] = R.alarm]
    /\ vaults' = [j \in DOMAIN vaults |-> IF j[1] = k[1] THEN R.vault ELSE vaults[j]]
    /\ lamports' = R.lamports
    /\ permits' = R.permits
    /\ UNCHANGED <<now, probe>>

\* The program entry returns the handler's Result to the runtime, which keeps
\* the call's account writes only on Ok: L0 is the ledger before the call, L the
\* ledger as the handler left it.
Outcome(L0, L) == IF L.err = "Ok" THEN L ELSE Err(L0, L.err)

\* One call as a step: the ledger becomes the call's outcome.
Commit(k, L) ==
    LET R == Outcome(View(k), L) IN
    /\ alarms' = [alarms EXCEPT ![k] = R.alarm]
    /\ vaults' = [vaults EXCEPT ![k] = R.vault]
    /\ lamports' = R.lamports
    /\ permits' = R.permits
    /\ UNCHANGED <<now, probe>>

\* -------------------------------------------------------------- create_alarm.rs
\* #[derive(Accounts)] CreateAlarm: `init` of the Alarm and of the Vault, the
\* Vault's rent-exempt minimum paid by the owner.  (The rent of the Alarm record
\* itself stays in that record for good and is not part of the modelled ledger.)
\* Mutant: the Alarm is `init_if_needed`: an existing record is taken over and
\* only an open Vault blocks the creation.
CreateAlarm_accounts_init_if_needed(L, owner) ==
    IF L.vault.open THEN Err(L, "AccountAlreadyInUse")
    ELSE IF L.lamports[owner] < Rent_minimum_balance THEN Err(L, "InsufficientFunds")
    ELSE [L EXCEPT !.alarm.init = TRUE,
                   !.vault = [open |-> TRUE, lamports |-> Rent_minimum_balance],
                   !.lamports[owner] = @ - Rent_minimum_balance]

CreateAlarm_accounts(L, owner) ==
    IF L.alarm.init \/ L.vault.open THEN Err(L, "AccountAlreadyInUse")
    ELSE IF L.lamports[owner] < Rent_minimum_balance THEN Err(L, "InsufficientFunds")
    ELSE [L EXCEPT !.alarm.init = TRUE,
                   !.vault = [open |-> TRUE, lamports |-> Rent_minimum_balance],
                   !.lamports[owner] = @ - Rent_minimum_balance]

\* Mutant: the deadline is not compared with alarm_time.
process_create_alarm_any_deadline(L, owner, clock, alarm_time, deadline, deposit_amount, penalty_route, penalty_destination) ==
    IF L.err # "Ok" THEN L ELSE
    LET route == PenaltyRoute_try_from(penalty_route) IN
    IF IsNone(route) THEN Err(L, "InvalidPenaltyRoute")
    ELSE IF ~(alarm_time > clock) THEN Err(L, "AlarmTimeInPast")
    ELSE IF deposit_amount > 0 /\ ~(deposit_amount >= MIN_DEPOSIT_LAMPORTS)
         THEN Err(L, "DepositTooSmall")
    ELSE IF deposit_amount > 0 /\ Unwrap(route) = "Buddy" /\ IsNone(penalty_destination)
         THEN Err(L, "BuddyAddressRequired")
    ELSE IF deposit_amount > 0 /\ L.lamports[owner] < deposit_amount
         THEN Err(L, "InsufficientFunds")
    ELSE LET paid == IF deposit_amount > 0
                     THEN [L EXCEPT !.lamports[owner] = @ - deposit_amount,
                                    !.vault.lamports = @ + deposit_amount]
                     ELSE L
         IN [paid EXCEPT !.alarm =
                [ init |-> TRUE,
                  owner |-> owner,
                  alarm_time |-> alarm_time,
                  deadline |-> deadline,
                  initial_amount |-> deposit_amount,
                  remaining_amount |-> deposit_amount,
                  penalty_route |-> penalty_route,
                  penalty_destination |-> penalty_destination,
                  snooze_count |-> 0,
                  status |-> "Created" ]]

\* Mutant: an alarm_time equal to the clock is accepted.
process_create_alarm_at_now(L, owner, clock, alarm_time, deadline, deposit_amount, penalty_route, penalty_destination) ==
    IF L.err # "Ok" THEN L ELSE
    LET route == PenaltyRoute_try_from(penalty_route) IN
    IF IsNone(route) THEN Err(L, "InvalidPenaltyRoute")
    ELSE IF ~(alarm_time >= clock) THEN Err(L, "AlarmTimeInPast")
    ELSE IF ~(deadline > alarm_time) THEN Err(L, "InvalidDeadline")
    ELSE IF deposit_amount > 0 /\ ~(deposit_amount >= MIN_DEPOSIT_LAMPORTS)
         THEN Err(L, "DepositTooSmall")
    ELSE IF deposit_amount > 0 /\ Unwrap(route) = "Buddy" /\ IsNone(penalty_destination)
         THEN Err(L, "BuddyAddressRequired")
    ELSE IF deposit_amount > 0 /\ L.lamports[owner] < deposit_amount
         THEN Err(L, "InsufficientFunds")
    ELSE LET paid == IF deposit_amount > 0
                     THEN [L EXCEPT !.lamports[owner] = @ - deposit_amount,
                                    !.vault.lamports = @ + deposit_amount]
                     ELSE L
         IN [paid EXCEPT !.alarm =
                [ init |-> TRUE,
                  owner |-> owner,
                  alarm_time |-> alarm_time,
                  deadline |-> deadline,
                  initial_amount |-> deposit_amount,
                  remaining_amount |-> deposit_amount,
                  penalty_route |-> penalty_route,
                  penalty_destination |-> penalty_destination,
                  snooze_count |-> 0,
                  status |-> "Created" ]]

process_create_alarm(L, owner, clock, alarm_time, deadline, deposit_amount, penalty_route, penalty_destination) ==
    IF L.err # "Ok" THEN L ELSE
    LET route == PenaltyRoute_try_from(penalty_route) IN
    IF IsNone(route) THEN Err(L, "InvalidPenaltyRoute")
    ELSE IF ~(alarm_time > clock) THEN Err(L, "AlarmTimeInPast")
    ELSE IF ~(deadline > alarm_time) THEN Err(L, "InvalidDeadline")
    ELSE IF deposit_amount > 0 /\ ~(deposit_amount >= MIN_DEPOSIT_LAMPORTS)
         THEN Err(L, "DepositTooSmall")
    ELSE IF deposit_amount > 0 /\ Unwrap(route) = "Buddy" /\ IsNone(penalty_destination)
         THEN Err(L, "BuddyAddressRequired")
    ELSE IF deposit_amount > 0 /\ L.lamports[owner] < deposit_amount
         THEN Err(L, "InsufficientFunds")
    ELSE LET paid == IF deposit_amount > 0
                     THEN [L EXCEPT !.lamports[owner] = @ - deposit_amount,
                                    !.vault.lamports = @ + deposit_amount]
                     ELSE L
         IN [paid EXCEPT !.alarm =
                [ init |-> TRUE,
                  owner |-> owner,
                  alarm_time |-> alarm_time,
                  deadline |-> deadline,
                  initial_amount |-> deposit_amount,
                  remaining_amount |-> deposit_amount,
                  penalty_route |-> penalty_route,
                  penalty_destination |-> penalty_destination,
                  snooze_count |-> 0,
                  status |-> "Created" ]]

\* ----------------------------------------------------------------- ack_awake.rs
\* Mutant: the status constraint of AckAwake is left out.
AckAwake_accounts_any_status(L, caller) ==
    IF ~L.alarm.init THEN Err(L, "AccountNotInitialized")
    ELSE IF L.alarm.owner # caller THEN Err(L, "ConstraintHasOne")
    ELSE L

AckAwake_accounts(L, caller) ==
    IF ~L.alarm.init THEN Err(L, "AccountNotInitialized")
    ELSE IF L.alarm.owner # caller THEN Err(L, "ConstraintHasOne")
    ELSE IF L.alarm.status # "Created" THEN Err(L, "InvalidAlarmState")
    ELSE L

\* Mutant: the ack is accepted after the deadline.
process_ack_awake_after_deadline(L, clock) ==
    IF L.err # "Ok" THEN L
    ELSE IF ~(clock >= L.alarm.alarm_time) THEN Err(L, "TooEarly")
    ELSE [L EXCEPT !.alarm.status = "Acknowledged"]

\* Mutant: the status is written before the window checks are made.
process_ack_awake_marks_first(L, clock) ==
    IF L.err # "Ok" THEN L ELSE
    LET M == [L EXCEPT !.alarm.status = "Acknowledged"] IN
    IF ~(clock >= L.alarm.alarm_time) THEN Err(M, "TooEarly")
    ELSE IF ~(clock < L.alarm.deadline) THEN Err(M, "DeadlinePassed")
    ELSE M

process_ack_awake(L, clock) ==
    IF L.err # "Ok" THEN L
    ELSE IF ~(clock >= L.alarm.alarm_time) THEN Err(L, "TooEarly")
    ELSE IF ~(clock < L.alarm.deadline) THEN Err(L, "DeadlinePassed")
    ELSE [L EXCEPT !.alarm.status = "Acknowledged"]

\* -------------------------------------------------------------------- snooze.rs
Snooze_accounts(L, caller, sink) ==
    IF ~L.alarm.init THEN Err(L, "AccountNotInitialized")
    ELSE IF L.alarm.owner # caller THEN Err(L, "ConstraintHasOne")
    ELSE IF L.alarm.status # "Created" THEN Err(L, "InvalidAlarmState")
    ELSE IF ~L.vault.open THEN Err(L, "AccountNotInitialized")
    ELSE IF sink # BURN_SINK THEN Err(L, "InvalidSinkAddress")
    ELSE L

\* Mutant: the snooze debits the vault but leaves remaining_amount as it was.
snooze_update_keeps_remaining(L, final_cost) ==
    LET cnt == checked_add_u8(L.alarm.snooze_count, 1) IN
    IF IsNone(cnt) THEN Err(L, "Overflow") ELSE
    LET L2 == [L EXCEPT !.alarm.snooze_count = Unwrap(cnt)]
        at == checked_add_i64(L2.alarm.alarm_time, DEFAULT_SNOOZE_EXTENSION_SECONDS) IN
    IF IsNone(at) THEN Err(L2, "Overflow") ELSE
    LET L3 == [L2 EXCEPT !.alarm.alarm_time = Unwrap(at)]
        dl == checked_add_i64(L3.alarm.deadline, DEFAULT_SNOOZE_EXTENSION_SECONDS) IN
    IF IsNone(dl) THEN Err(L3, "Overflow") ELSE
    [L3 EXCEPT !.alarm.deadline = Unwrap(dl)]

\* The state updates of process_snooze, lines 111-128, after the transfer:
\* each checked_* failure returns with the writes made before it.
\* Mutant: the snooze extends the deadline but leaves the alarm time where it was.
snooze_update_keeps_alarm_time(L, final_cost) ==
    LET rem == checked_sub(L.alarm.remaining_amount, final_cost) IN
    IF IsNone(rem) THEN Err(L, "Overflow") ELSE
    LET L1 == [L EXCEPT !.alarm.remaining_amount = Unwrap(rem)]
        cnt == checked_add_u8(L1.alarm.snooze_count, 1) IN
    IF IsNone(cnt) THEN Err(L1, "Overflow") ELSE
    LET L2 == [L1 EXCEPT !.alarm.snooze_count = Unwrap(cnt)]
        dl == checked_add_i64(L2.alarm.deadline, DEFAULT_SNOOZE_EXTENSION_SECONDS) IN
    IF IsNone(dl) THEN Err(L2, "Overflow") ELSE
    [L2 EXCEPT !.alarm.deadline = Unwrap(dl)]

snooze_update(L, final_cost) ==
    LET rem == checked_sub(L.alarm.remaining_amount, final_cost) IN
    IF IsNone(rem) THEN Err(L, "Overflow") ELSE
    LET L1 == [L EXCEPT !.alarm.remaining_amount = Unwrap(rem)]
        cnt == checked_add_u8(L1.alarm.snooze_count, 1) IN
    IF IsNone(cnt) THEN Err(L1, "Overflow") ELSE
    LET L2 == [L1 EXCEPT !.alarm.snooze_count = Unwrap(cnt)]
        at == checked_add_i64(L2.alarm.alarm_time, DEFAULT_SNOOZE_EXTENSION_SECONDS) IN
    IF IsNone(at) THEN Err(L2, "Overflow") ELSE
    LET L3 == [L2 EXCEPT !.alarm.alarm_time = Unwrap(at)]
        dl == checked_add_i64(L3.alarm.deadline, DEFAULT_SNOOZE_EXTENSION_SECONDS) IN
    IF IsNone(dl) THEN Err(L3, "Overflow") ELSE
    [L3 EXCEPT !.alarm.deadline = Unwrap(dl)]

\* Mutant: the fee does not double with the snooze count.
snooze_inline_cost_flat(remaining_amount, snooze_count) ==
    LET m == checked_mul(remaining_amount, DEFAULT_SNOOZE_PERCENT) IN
    IF IsNone(m) THEN None ELSE
    LET base_cost == checked_div(Unwrap(m), 100) IN
    IF IsNone(base_cost) THEN None
    ELSE Some(Min(Unwrap(base_cost), remaining_amount))

\* The cost computed inline by process_snooze, lines 76-87.
snooze_inline_cost(remaining_amount, snooze_count) ==
    LET m == checked_mul(remaining_amount, DEFAULT_SNOOZE_PERCENT) IN
    IF IsNone(m) THEN None ELSE
    LET base_cost == checked_div(Unwrap(m), 100) IN
    IF IsNone(base_cost) THEN None ELSE
    LET multiplier == 2^snooze_count
        c == checked_mul(Unwrap(base_cost), multiplier) IN
    IF IsNone(c) THEN None ELSE Some(Min(Unwrap(c), remaining_amount))

\* Mutant: the expected snooze count is not compared with the stored one.
process_snooze_any_expected(L, clock, expected_snooze_count) ==
    IF L.err # "Ok" THEN L
    ELSE IF ~(clock >= L.alarm.alarm_time) THEN Err(L, "TooEarly")
    ELSE IF ~(clock < L.alarm.deadline) THEN Err(L, "DeadlinePassed")
    ELSE IF ~(L.alarm.snooze_count < MAX_SNOOZE_COUNT) THEN Err(L, "MaxSnoozesReached")
    ELSE
    LET cost == snooze_inline_cost(L.alarm.remaining_amount, L.alarm.snooze_count) IN
    IF IsNone(cost) THEN Err(L, "Overflow")
    ELSE IF ~(Unwrap(cost) > 0) THEN Err(L, "InsufficientDeposit")
    ELSE
    LET min_balance == Rent_minimum_balance
        current_lamports == L.vault.lamports
        available == checked_sub(current_lamports, min_balance) IN
    IF IsNone(available) THEN Err(L, "InsufficientDeposit") ELSE
    LET final_cost == Min(Unwrap(cost), Unwrap(available)) IN
    IF ~(final_cost > 0) THEN Err(L, "InsufficientDeposit") ELSE
    snooze_update([L EXCEPT !.vault.lamports = @ - final_cost,
                            !.lamports[BURN_SINK] = @ + final_cost],
                  final_cost)

process_snooze(L, clock, expected_snooze_count) ==
    IF L.err # "Ok" THEN L
    ELSE IF ~(clock >= L.alarm.alarm_time) THEN Err(L, "TooEarly")
    ELSE IF ~(clock < L.alarm.deadline) THEN Err(L, "DeadlinePassed")
    ELSE IF ~(L.alarm.snooze_count < MAX_SNOOZE_COUNT) THEN Err(L, "MaxSnoozesReached")
    ELSE IF ~(L.alarm.snooze_count = expected_snooze_count)
         THEN Err(L, "InvalidAlarmState")
    ELSE
    LET cost == snooze_inline_cost(L.alarm.remaining_amount, L.alarm.snooze_count) IN
    IF IsNone(cost) THEN Err(L, "Overflow")
    ELSE IF ~(Unwrap(cost) > 0) THEN Err(L, "InsufficientDeposit")
    ELSE
    LET min_balance == Rent_minimum_balance
        current_lamports == L.vault.lamports
        available == checked_sub(current_lamports, min_balance) IN
    IF IsNone(available) THEN Err(L, "InsufficientDeposit") ELSE
    LET final_cost == Min(Unwrap(cost), Unwrap(available)) IN
    IF ~(final_cost > 0) THEN Err(L, "InsufficientDeposit") ELSE
    snooze_update([L EXCEPT !.vault.lamports = @ - final_cost,
                            !.lamports[BURN_SINK] = @ + final_cost],
                  final_cost)

\* --------------------------------------------------------------------- claim.rs
\* Mutant: the has_one = owner constraint of Claim is left out.
Claim_accounts_any_caller(L, caller) ==
    IF ~L.alarm.init THEN Err(L, "AccountNotInitialized")
    ELSE IF ~(L.alarm.status = "Created" \/ L.alarm.status = "Acknowledged")
         THEN Err(L, "InvalidAlarmState")
    ELSE IF ~L.vault.open THEN Err(L, "AccountNotInitialized")
    ELSE L

Claim_accounts(L, caller) ==
    IF ~L.alarm.init THEN Err(L, "AccountNotInitialized")
    ELSE IF L.alarm.owner # caller THEN Err(L, "ConstraintHasOne")
    ELSE IF ~(L.alarm.status = "Created" \/ L.alarm.status = "Acknowledged")
         THEN Err(L, "InvalidAlarmState")
    ELSE IF ~L.vault.open THEN Err(L, "AccountNotInitialized")
    ELSE L

\* Mutant: the claim marks the alarm Claimed but does not zero remaining_amount.
process_claim_keeps_remaining(L, clock) ==
    IF L.err # "Ok" THEN L
    ELSE IF ~(clock >= L.alarm.alarm_time) THEN Err(L, "TooEarly")
    ELSE IF ~(clock < L.alarm.deadline) THEN Err(L, "DeadlinePassed")
    ELSE [L EXCEPT !.alarm.status = "Claimed"]

\* Mutant: the claim does not check that the alarm time has been reached.
process_claim_before_alarm_time(L, clock) ==
    IF L.err # "Ok" THEN L
    ELSE IF ~(clock < L.alarm.deadline) THEN Err(L, "DeadlinePassed")
    ELSE [L EXCEPT !.alarm.status = "Claimed",
                   !.alarm.remaining_amount = 0]

\* Mutant: the claim does not check that the deadline has not passed.
process_claim_after_deadline(L, clock) ==
    IF L.err # "Ok" THEN L
    ELSE IF ~(clock >= L.alarm.alarm_time) THEN Err(L, "TooEarly")
    ELSE [L EXCEPT !.alarm.status = "Claimed",
                   !.alarm.remaining_amount = 0]

process_claim(L, clock) ==
    IF L.err # "Ok" THEN L
    ELSE IF ~(clock >= L.alarm.alarm_time) THEN Err(L, "TooEarly")
    ELSE IF ~(clock < L.alarm.deadline) THEN Err(L, "DeadlinePassed")
    ELSE [L EXCEPT !.alarm.status = "Claimed",
                   !.alarm.remaining_amount = 0]

\* --------------------------------------------------------------------- slash.rs
\* Mutant: Slash accepts an Acknowledged alarm as well as a Created one.
Slash_accounts_or_acknowledged(L) ==
    IF ~L.alarm.init THEN Err(L, "AccountNotInitialized")
    ELSE IF ~(L.alarm.status = "Created" \/ L.alarm.status = "Acknowledged")
         THEN Err(L, "InvalidAlarmState")
    ELSE IF ~L.vault.open THEN Err(L, "AccountNotInitialized")
    ELSE L

Slash_accounts(L) ==
    IF ~L.alarm.init THEN Err(L, "AccountNotInitialized")
    ELSE IF L.alarm.status # "Created" THEN Err(L, "InvalidAlarmState")
    ELSE IF ~L.vault.open THEN Err(L, "AccountNotInitialized")
    ELSE L

\* Mutant: the Donate route pays whichever recipient the caller names.
process_slash_any_recipient(L, clock, caller_key, penalty_recipient) ==
    IF L.err # "Ok" THEN L
    ELSE IF ~(clock >= L.alarm.deadline) THEN Err(L, "DeadlineNotPassed")
    ELSE
    LET route == PenaltyRoute_try_from(L.alarm.penalty_route)
        done == [L EXCEPT !.alarm.status = "Slashed",
                          !.alarm.remaining_amount = 0] IN
    IF IsNone(route) THEN Err(L, "InvalidPenaltyRoute")
    ELSE IF Unwrap(route) = "Burn" THEN
        IF ~(penalty_recipient = BURN_SINK) THEN Err(L, "InvalidPenaltyRecipient")
        ELSE done
    ELSE IF Unwrap(route) = "Donate" THEN
        IF IsNone(L.alarm.penalty_destination) THEN Err(L, "PenaltyDestinationNotSet")
        ELSE done
    ELSE
        IF IsNone(L.alarm.penalty_destination) THEN Err(L, "PenaltyDestinationNotSet")
        ELSE IF ~(penalty_recipient = Unwrap(L.alarm.penalty_destination))
             THEN Err(L, "InvalidPenaltyRecipient")
        ELSE
        LET buddy_only_end == checked_add_i64(L.alarm.deadline, BUDDY_ONLY_SECONDS) IN
        IF IsNone(buddy_only_end) THEN Err(L, "Overflow")
        ELSE IF clock < Unwrap(buddy_only_end)
                /\ ~(caller_key = Unwrap(L.alarm.penalty_destination))
             THEN Err(L, "BuddyOnlyWindow")
        ELSE done

\* Mutant: the buddy-only window is not enforced.
process_slash_no_buddy_window(L, clock, caller_key, penalty_recipient) ==
    IF L.err # "Ok" THEN L
    ELSE IF ~(clock >= L.alarm.deadline) THEN Err(L, "DeadlineNotPassed")
    ELSE
    LET route == PenaltyRoute_try_from(L.alarm.penalty_route)
        done == [L EXCEPT !.alarm.status = "Slashed",
                          !.alarm.remaining_amount = 0] IN
    IF IsNone(route) THEN Err(L, "InvalidPenaltyRoute")
    ELSE IF Unwrap(route) = "Burn" THEN
        IF ~(penalty_recipient = BURN_SINK) THEN Err(L, "InvalidPenaltyRecipient")
        ELSE done
    ELSE IF Unwrap(route) = "Donate" THEN
        IF IsNone(L.alarm.penalty_destination) THEN Err(L, "PenaltyDestinationNotSet")
        ELSE IF ~(penalty_recipient = Unwrap(L.alarm.penalty_destination))
             THEN Err(L, "InvalidPenaltyRecipient")
        ELSE done
    ELSE
        IF IsNone(L.alarm.penalty_destination) THEN Err(L, "PenaltyDestinationNotSet")
        ELSE IF ~(penalty_recipient = Unwrap(L.alarm.penalty_destination))
             THEN Err(L, "InvalidPenaltyRecipient")
        ELSE
        LET buddy_only_end == checked_add_i64(L.alarm.deadline, BUDDY_ONLY_SECONDS) IN
        IF IsNone(buddy_only_end) THEN Err(L, "Overflow")
        ELSE done

process_slash(L, clock, caller_key, penalty_recipient) ==
    IF L.err # "Ok" THEN L
    ELSE IF ~(clock >= L.alarm.deadline) THEN Err(L, "DeadlineNotPassed")
    ELSE
    LET route == PenaltyRoute_try_from(L.alarm.penalty_route)
        done == [L EXCEPT !.alarm.status = "Slashed",
                          !.alarm.remaining_amount = 0] IN
    IF IsNone(route) THEN Err(L, "InvalidPenaltyRoute")
    ELSE IF Unwrap(route) = "Burn" THEN
        IF ~(penalty_recipient = BURN_SINK) THEN Err(L, "InvalidPenaltyRecipient")
        ELSE done
    ELSE IF Unwrap(route) = "Donate" THEN
        IF IsNone(L.alarm.penalty_destination) THEN Err(L, "PenaltyDestinationNotSet")
        ELSE IF ~(penalty_recipient = Unwrap(L.alarm.penalty_destination))
             THEN Err(L, "InvalidPenaltyRecipient")
        ELSE done
    ELSE
        IF IsNone(L.alarm.penalty_destination) THEN Err(L, "PenaltyDestinationNotSet")
        ELSE IF ~(penalty_recipient = Unwrap(L.alarm.penalty_destination))
             THEN Err(L, "InvalidPenaltyRecipient")
        ELSE
        LET buddy_only_end == checked_add_i64(L.alarm.deadline, BUDDY_ONLY_SECONDS) IN
        IF IsNone(buddy_only_end) THEN Err(L, "Overflow")
        ELSE IF clock < Unwrap(buddy_only_end)
                /\ ~(caller_key = Unwrap(L.alarm.penalty_destination))
             THEN Err(L, "BuddyOnlyWindow")
        ELSE done

\* -------------------------------------------------------- sweep_acknowledged.rs
SweepAcknowledged_accounts(L, owner) ==
    IF ~L.alarm.init THEN Err(L, "AccountNotInitialized")
    ELSE IF L.alarm.owner # owner THEN Err(L, "ConstraintHasOne")
    ELSE IF L.alarm.status # "Acknowledged" THEN Err(L, "InvalidAlarmState")
    ELSE IF ~L.vault.open THEN Err(L, "AccountNotInitialized")
    ELSE L

\* Mutant: the sweep opens at the deadline, without the claim grace.
process_sweep_acknowledged_no_grace(L, clock) ==
    IF L.err # "Ok" THEN L
    ELSE IF ~(clock > L.alarm.deadline) THEN Err(L, "DeadlineNotPassed")
    ELSE [L EXCEPT !.alarm.status = "Claimed",
                   !.alarm.remaining_amount = 0]

process_sweep_acknowledged(L, clock) ==
    IF L.err # "Ok" THEN L ELSE
    LET claim_deadline == checked_add_i64(L.alarm.deadline, CLAIM_GRACE_SECONDS) IN
    IF IsNone(claim_deadline) THEN Err(L, "Overflow")
    ELSE IF ~(clock > Unwrap(claim_deadline)) THEN Err(L, "DeadlineNotPassed")
    ELSE [L EXCEPT !.alarm.status = "Claimed",
                   !.alarm.remaining_amount = 0]

\* ---------------------------------------------------------- emergency_refund.rs
EmergencyRefund_accounts(L, caller, sink) ==
    IF ~L.alarm.init THEN Err(L, "AccountNotInitialized")
    ELSE IF L.alarm.owner # caller THEN Err(L, "ConstraintHasOne")
    ELSE IF L.alarm.status # "Created" THEN Err(L, "InvalidAlarmState")
    ELSE IF ~L.vault.open THEN Err(L, "AccountNotInitialized")
    ELSE IF sink # BURN_SINK THEN Err(L, "InvalidSinkAddress")
    ELSE L

\* Mutant: the refund penalty is taken at the snooze percentage.
refund_inline_penalty_snooze_percent(remaining_amount) ==
    LET m == checked_mul(remaining_amount, DEFAULT_SNOOZE_PERCENT) IN
    IF IsNone(m) THEN None ELSE checked_div(Unwrap(m), 100)

\* The penalty computed inline by process_emergency_refund, lines 54-59.
refund_inline_penalty(remaining_amount) ==
    LET m == checked_mul(remaining_amount, EMERGENCY_REFUND_PENALTY_PERCENT) IN
    IF IsNone(m) THEN None ELSE checked_div(Unwrap(m), 100)

\* Mutant: the refund penalty leaves the vault but is not credited to the sink.
process_emergency_refund_no_credit(L, clock) ==
    IF L.err # "Ok" THEN L
    ELSE IF ~(clock < L.alarm.alarm_time) THEN Err(L, "TooLateForRefund")
    ELSE
    LET penalty == refund_inline_penalty(L.alarm.remaining_amount) IN
    IF IsNone(penalty) THEN Err(L, "Overflow") ELSE
    LET min_balance == Rent_minimum_balance
        available == saturating_sub(L.vault.lamports, min_balance)
        capped == Min(Unwrap(penalty), available)
        debited == IF Unwrap(penalty) > 0 /\ capped > 0
                   THEN [L EXCEPT !.vault.lamports = @ - capped]
                   ELSE L
    IN [debited EXCEPT !.alarm.status = "Claimed",
                       !.alarm.remaining_amount = 0]

process_emergency_refund(L, clock) ==
    IF L.err # "Ok" THEN L
    ELSE IF ~(clock < L.alarm.alarm_time) THEN Err(L, "TooLateForRefund")
    ELSE
    LET penalty == refund_inline_penalty(L.alarm.remaining_amount) IN
    IF IsNone(penalty) THEN Err(L, "Overflow") ELSE
    LET min_balance == Rent_minimum_balance
        available == saturating_sub(L.vault.lamports, min_balance)
        capped == Min(Unwrap(penalty), available)
        debited == IF Unwrap(penalty) > 0 /\ capped > 0
                   THEN [L EXCEPT !.vault.lamports = @ - capped,
                                  !.lamports[BURN_SINK] = @ + capped]
                   ELSE L
    IN [debited EXCEPT !.alarm.status = "Claimed",
                       !.alarm.remaining_amount = 0]

\* --------------------------------------------------------- ack_awake_attested.rs
U16_MAX == 65535
HexChars == <<"0", "1", "2", "3", "4", "5", "6", "7", "8", "9",
              "a", "b", "c", "d", "e", "f">>

nibble_to_hex(n) == IF n \in 0..15 THEN HexChars[n + 1] ELSE "?"

\* u64 / i64 / u8 to_string for a non-negative value: its decimal digits.
RECURSIVE to_string(_)
to_string(n) ==
    IF n < 10 THEN <<HexChars[n + 1]>>
    ELSE to_string(n \div 10) \o <<HexChars[(n % 10) + 1]>>

\* The hex text of the proof hash, two characters per byte.
RECURSIVE proof_hex(_)
proof_hex(proof_hash) ==
    IF proof_hash = <<>> THEN <<>>
    ELSE <<nibble_to_hex(Head(proof_hash) \div 16),
           nibble_to_hex(Head(proof_hash) % 16)>> \o proof_hex(Tail(proof_hash))

\* The canonical permit message, a sequence of characters.  A string constant
\* and the base58 text of a key are each one element of the sequence.
build_ack_permit_message(cluster, program_id, alarm_pda, owner, nonce, exp_ts, proof_type, proof_hash) ==
    <<ATTESTATION_DOMAIN, "|", ATTESTATION_ACTION_ACK, "|", cluster, "|",
      program_id, "|", alarm_pda, "|", owner, "|">>
    \o to_string(nonce) \o <<"|">>
    \o to_string(exp_ts) \o <<"|">>
    \o to_string(proof_type) \o <<"|">>
    \o proof_hex(proof_hash)

\* The data of an Ed25519 verify instruction: its length, the header read by
\* read_u16_le at offsets 0..14, and the bytes found at the two offsets the
\* handler slices (the 32 bytes at pubkey_offset, the msg_size bytes at
\* msg_offset).
\* Mutant: the verified message is compared with the expected one by length only.
verify_ed25519_verify_ix_length_only(ix_data, expected_message) ==
    IF ~(ix_data.len >= 16) THEN "InvalidEd25519Verify"
    ELSE IF ~(ix_data.num_signatures = 1) THEN "InvalidEd25519Verify"
    ELSE IF ~(ix_data.padding = 0) THEN "InvalidEd25519Verify"
    ELSE IF ~(ix_data.signature_ix = U16_MAX) THEN "InvalidEd25519Verify"
    ELSE IF ~(ix_data.pubkey_ix = U16_MAX) THEN "InvalidEd25519Verify"
    ELSE IF ~(ix_data.msg_ix = U16_MAX) THEN "InvalidEd25519Verify"
    ELSE IF ~(ix_data.pubkey_offset + 32 <= ix_data.len) THEN "InvalidEd25519Verify"
    ELSE IF ~(ix_data.signature_offset + 64 <= ix_data.len) THEN "InvalidEd25519Verify"
    ELSE IF ~(ix_data.msg_offset + ix_data.msg_size <= ix_data.len)
         THEN "InvalidEd25519Verify"
    ELSE IF ~(ix_data.pubkey_bytes = ATTESTATION_PUBKEY) THEN "AttestationPubkeyMismatch"
    ELSE IF ~(ix_data.msg_size = Len(expected_message)) THEN "InvalidPermitMessage"
    ELSE "Ok"

\* Mutant: the key the signature was verified against is not compared with
\* ATTESTATION_PUBKEY.
verify_ed25519_verify_ix_any_pubkey(ix_data, expected_message) ==
    IF ~(ix_data.len >= 16) THEN "InvalidEd25519Verify"
    ELSE IF ~(ix_data.num_signatures = 1) THEN "InvalidEd25519Verify"
    ELSE IF ~(ix_data.padding = 0) THEN "InvalidEd25519Verify"
    ELSE IF ~(ix_data.signature_ix = U16_MAX) THEN "InvalidEd25519Verify"
    ELSE IF ~(ix_data.pubkey_ix = U16_MAX) THEN "InvalidEd25519Verify"
    ELSE IF ~(ix_data.msg_ix = U16_MAX) THEN "InvalidEd25519Verify"
    ELSE IF ~(ix_data.pubkey_offset + 32 <= ix_data.len) THEN "InvalidEd25519Verify"
    ELSE IF ~(ix_data.signature_offset + 64 <= ix_data.len) THEN "InvalidEd25519Verify"
    ELSE IF ~(ix_data.msg_offset + ix_data.msg_size <= ix_data.len)
         THEN "InvalidEd25519Verify"
    ELSE IF ~(ix_data.msg_size = Len(expected_message)) THEN "InvalidPermitMessage"
    ELSE IF ~(ix_data.msg_bytes = expected_message) THEN "InvalidPermitMessage"
    ELSE "Ok"

verify_ed25519_verify_ix(ix_data, expected_message) ==
    IF ~(ix_data.len >= 16) THEN "InvalidEd25519Verify"
    ELSE IF ~(ix_data.num_signatures = 1) THEN "InvalidEd25519Verify"
    ELSE IF ~(ix_data.padding = 0) THEN "InvalidEd25519Verify"
    ELSE IF ~(ix_data.signature_ix = U16_MAX) THEN "InvalidEd25519Verify"
    ELSE IF ~(ix_data.pubkey_ix = U16_MAX) THEN "InvalidEd25519Verify"
    ELSE IF ~(ix_data.msg_ix = U16_MAX) THEN "InvalidEd25519Verify"
    ELSE IF ~(ix_data.pubkey_offset + 32 <= ix_data.len) THEN "InvalidEd25519Verify"
    ELSE IF ~(ix_data.signature_offset + 64 <= ix_data.len) THEN "InvalidEd25519Verify"
    ELSE IF ~(ix_data.msg_offset + ix_data.msg_size <= ix_data.len)
         THEN "InvalidEd25519Verify"
    ELSE IF ~(ix_data.pubkey_bytes = ATTESTATION_PUBKEY) THEN "AttestationPubkeyMismatch"
    ELSE IF ~(ix_data.msg_size = Len(expected_message)) THEN "InvalidPermitMessage"
    ELSE IF ~(ix_data.msg_bytes = expected_message) THEN "InvalidPermitMessage"
    ELSE "Ok"

\* The key of the Alarm PDA of (owner, alarm_id), as base58 text.
AlarmPda(k) == IF k[2] = 1 THEN "alarm1_" \o k[1] ELSE "alarm2_" \o k[1]

\* #[derive(Accounts)] AckAwakeAttested: has_one = owner, the status constraint,
\* and the `init` of the PermitNonce account of (alarm, nonce), whose
\* rent-exempt minimum the owner pays into the new account.
\* Mutant: the status constraint of AckAwakeAttested is left out.
AckAwakeAttested_accounts_any_status(L, k, caller, nonce) ==
    IF ~L.alarm.init THEN Err(L, "AccountNotInitialized")
    ELSE IF L.alarm.owner # caller THEN Err(L, "ConstraintHasOne")
    ELSE IF <<k, nonce>> \in L.permits THEN Err(L, "AccountAlreadyInUse")
    ELSE IF L.lamports[caller] < PermitNonce_minimum_balance
         THEN Err(L, "InsufficientFunds")
    ELSE [L EXCEPT !.permits = @ \cup {<<k, nonce>>},
                   !.lamports[caller] = @ - PermitNonce_minimum_balance]

\* Mutant: the PermitNonce account is not created, so the nonce is not recorded.
AckAwakeAttested_accounts_no_record(L, k, caller, nonce) ==
    IF ~L.alarm.init THEN Err(L, "AccountNotInitialized")
    ELSE IF L.alarm.owner # caller THEN Err(L, "ConstraintHasOne")
    ELSE IF L.alarm.status # "Created" THEN Err(L, "InvalidAlarmState")
    ELSE L

AckAwakeAttested_accounts(L, k, caller, nonce) ==
    IF ~L.alarm.init THEN Err(L, "AccountNotInitialized")
    ELSE IF L.alarm.owner # caller THEN Err(L, "ConstraintHasOne")
    ELSE IF L.alarm.status # "Created" THEN Err(L, "InvalidAlarmState")
    ELSE IF <<k, nonce>> \in L.permits THEN Err(L, "AccountAlreadyInUse")
    ELSE IF L.lamports[caller] < PermitNonce_minimum_balance
         THEN Err(L, "InsufficientFunds")
    ELSE [L EXCEPT !.permits = @ \cup {<<k, nonce>>},
                   !.lamports[caller] = @ - PermitNonce_minimum_balance]

\* Mutant: a permit is refused at the very second of its expiry.
process_ack_awake_attested_strict_expiry(L, clock, alarm_key, owner_key, nonce, exp_ts, proof_type, proof_hash, prev_ix) ==
    IF L.err # "Ok" THEN L
    ELSE IF ~(clock >= L.alarm.alarm_time) THEN Err(L, "TooEarly")
    ELSE IF ~(clock < L.alarm.deadline) THEN Err(L, "DeadlinePassed")
    ELSE IF ~(clock < exp_ts) THEN Err(L, "PermitExpired")
    ELSE IF IsNone(prev_ix) THEN Err(L, "MissingEd25519Verify")
    ELSE IF ~(Unwrap(prev_ix).program_id = ED25519_PROGRAM_ID)
         THEN Err(L, "MissingEd25519Verify")
    ELSE
    LET expected_message ==
            build_ack_permit_message(ATTESTATION_CLUSTER, PROGRAM_ID, alarm_key,
                                     owner_key, nonce, exp_ts, proof_type, proof_hash)
        verified == verify_ed25519_verify_ix(Unwrap(prev_ix).data, expected_message)
    IN IF verified # "Ok" THEN Err(L, verified)
       ELSE [L EXCEPT !.alarm.status = "Acknowledged"]

\* Mutant: the attested ack also forgets the snoozes taken so far.
process_ack_awake_attested_resets_snoozes(L, clock, alarm_key, owner_key, nonce, exp_ts, proof_type, proof_hash, prev_ix) ==
    IF L.err # "Ok" THEN L
    ELSE IF ~(clock >= L.alarm.alarm_time) THEN Err(L, "TooEarly")
    ELSE IF ~(clock < L.alarm.deadline) THEN Err(L, "DeadlinePassed")
    ELSE IF ~(clock <= exp_ts) THEN Err(L, "PermitExpired")
    ELSE IF IsNone(prev_ix) THEN Err(L, "MissingEd25519Verify")
    ELSE IF ~(Unwrap(prev_ix).program_id = ED25519_PROGRAM_ID)
         THEN Err(L, "MissingEd25519Verify")
    ELSE
    LET expected_message ==
            build_ack_permit_message(ATTESTATION_CLUSTER, PROGRAM_ID, alarm_key,
                                     owner_key, nonce, exp_ts, proof_type, proof_hash)
        verified == verify_ed25519_verify_ix(Unwrap(prev_ix).data, expected_message)
    IN IF verified # "Ok" THEN Err(L, verified)
       ELSE [L EXCEPT !.alarm.status = "Acknowledged", !.alarm.snooze_count = 0]

\* prev_ix: None when the instruction is the first of its transaction, else
\* Some([program_id, data]) for the instruction before it.
process_ack_awake_attested(L, clock, alarm_key, owner_key, nonce, exp_ts, proof_type, proof_hash, prev_ix) ==
    IF L.err # "Ok" THEN L
    ELSE IF ~(clock >= L.alarm.alarm_time) THEN Err(L, "TooEarly")
    ELSE IF ~(clock < L.alarm.deadline) THEN Err(L, "DeadlinePassed")
    ELSE IF ~(clock <= exp_ts) THEN Err(L, "PermitExpired")
    ELSE IF IsNone(prev_ix) THEN Err(L, "MissingEd25519Verify")
    ELSE IF ~(Unwrap(prev_ix).program_id = ED25519_PROGRAM_ID)
         THEN Err(L, "MissingEd25519Verify")
    ELSE
    LET expected_message ==
            build_ack_permit_message(ATTESTATION_CLUSTER, PROGRAM_ID, alarm_key,
                                     owner_key, nonce, exp_ts, proof_type, proof_hash)
        verified == verify_ed25519_verify_ix(Unwrap(prev_ix).data, expected_message)
    IN IF verified # "Ok" THEN Err(L, verified)
       ELSE [L EXCEPT !.alarm.status = "Acknowledged"]

\* ----------------------------------------------------------- inputs of the calls
AlarmTimeChoices == {TickSeconds, 2 * TickSeconds}
DeadlineChoices == {TickSeconds, 3 * TickSeconds, 8 * TickSeconds, I64_MAX}
DepositChoices == {0, MIN_DEPOSIT_LAMPORTS - 1, MIN_DEPOSIT_LAMPORTS,
                   MIN_DEPOSIT_LAMPORTS + 19, InitialWallet}
RouteChoices == 0..3
DestinationChoices == {None, Some("bob")}
SinkChoices == {BURN_SINK, "bob"}
ExpectedCountChoices == 0..MaxExpectedCount
ExpiryChoices == {0, now, MaxTime}
ProofType == 1
ProofHash == <<10, 243>>

\* A well-formed Ed25519 verify instruction carrying one signature by `pubkey`
\* over `message`, everything embedded in the instruction itself.
Ed25519Ix(pubkey, message) ==
    [ program_id |-> ED25519_PROGRAM_ID,
      data |-> [ len |-> 112 + Len(message),
                 num_signatures |-> 1,
                 padding |-> 0,
                 signature_offset |-> 48,
                 signature_ix |-> U16_MAX,
                 pubkey_offset |-> 16,
                 pubkey_ix |-> U16_MAX,
                 msg_offset |-> 112,
                 msg_size |-> Len(message),
                 msg_ix |-> U16_MAX,
                 pubkey_bytes |-> pubkey,
                 msg_bytes |-> message ] ]

PermitMessage(alarm_key, owner_key, nonce, exp_ts) ==
    build_ack_permit_message(ATTESTATION_CLUSTER, PROGRAM_ID, alarm_key, owner_key,
                             nonce, exp_ts, ProofType, ProofHash)

\* The permit the attestation server signs for this very call.
GoodPermit(k, owner_key, nonce, exp_ts) ==
    Ed25519Ix(ATTESTATION_PUBKEY, PermitMessage(AlarmPda(k), owner_key, nonce, exp_ts))

\* What may precede the call in its transaction: nothing, another program's
\* instruction, the good permit, or the good permit with one thing wrong.
PrevIxChoices(k, owner_key, nonce, exp_ts) ==
    LET good == GoodPermit(k, owner_key, nonce, exp_ts)
        msg == good.data.msg_bytes
    IN { None,
         Some(good),
         Some([good EXCEPT !.program_id = "SystemProgram"]),
         Some([good EXCEPT !.data.len = 8]),
         Some([good EXCEPT !.data.num_signatures = 2]),
         Some([good EXCEPT !.data.padding = 1]),
         Some([good EXCEPT !.data.signature_ix = 0]),
         Some([good EXCEPT !.data.pubkey_ix = 0]),
         Some([good EXCEPT !.data.msg_ix = 0]),
         Some([good EXCEPT !.data.pubkey_offset = good.data.len - 31]),
         Some([good EXCEPT !.data.signature_offset = good.data.len - 63]),
         Some([good EXCEPT !.data.msg_offset = 113]),
         Some(Ed25519Ix("mallory_key", msg)),
         Some(Ed25519Ix(ATTESTATION_PUBKEY,
                        PermitMessage(AlarmPda(k), owner_key, nonce + 1, exp_ts))),
         Some(Ed25519Ix(ATTESTATION_PUBKEY,
                        PermitMessage(AlarmPda(k), owner_key, nonce, exp_ts + 1))),
         Some(Ed25519Ix(ATTESTATION_PUBKEY,
                        PermitMessage(AlarmPda(k), "bob", nonce, exp_ts))),
         Some(Ed25519Ix(ATTESTATION_PUBKEY,
                        PermitMessage("alarm_other", owner_key, nonce, exp_ts))),
         Some(Ed25519Ix(ATTESTATION_PUBKEY, SubSeq(msg, 1, Len(msg) - 1))),
         Some(Ed25519Ix(ATTESTATION_PUBKEY, [msg EXCEPT ![Len(msg)] = "0"])) }

\* ------------------------------------------------------- the program's entries
\* Each entry of the #[program] module: the Accounts constraints, the handler
\* and the exit stage, applied to the ledger as it stands.
create_alarm(k, alarm_time, deadline, deposit_amount, penalty_route, penalty_destination) ==
    process_create_alarm(CreateAlarm_accounts(View(k), k[1]), k[1], now,
                         alarm_time, deadline, deposit_amount, penalty_route,
                         penalty_destination)

ack_awake(k, caller) == process_ack_awake(AckAwake_accounts(View(k), caller), now)

ack_awake_attested(k, caller, nonce, exp_ts, prev_ix) ==
    process_ack_awake_attested(
        AckAwakeAttested_accounts(View(k), k, caller, nonce), now,
        AlarmPda(k), caller, nonce, exp_ts, ProofType, ProofHash, prev_ix)

snooze(k, caller, sink, expected_snooze_count) ==
    process_snooze(Snooze_accounts(View(k), caller, sink), now, expected_snooze_count)

claim(k, caller) ==
    CloseVault(process_claim(Claim_accounts(View(k), caller), now), caller)

slash(k, caller, penalty_recipient) ==
    CloseVault(process_slash(Slash_accounts(View(k)), now, caller, penalty_recipient),
               penalty_recipient)

sweep_acknowledged(k, caller, owner) ==
    CloseVault(process_sweep_acknowledged(SweepAcknowledged_accounts(View(k), owner),
                                          now),
               owner)

emergency_refund(k, caller, sink) ==
    CloseVault(process_emergency_refund(
                   EmergencyRefund_accounts(View(k), caller, sink), now),
               caller)

\* ------------------------------------------------------------------ the actions
\* One action per instruction: the call is processed and the runtime commits
\* or discards its writes.
CreateAlarm(k, alarm_time, deadline, deposit_amount, penalty_route, penalty_destination) ==
    Commit(k, create_alarm(k, alarm_time, deadline, deposit_amount, penalty_route,
                           penalty_destination))

AckAwake(k, caller) == Commit(k, ack_awake(k, caller))

AckAwakeAttested(k, caller, nonce, exp_ts, prev_ix) ==
    Commit(k, ack_awake_attested(k, caller, nonce, exp_ts, prev_ix))

Snooze(k, caller, sink, expected_snooze_count) ==
    Commit(k, snooze(k, caller, sink, expected_snooze_count))

Claim(k, caller) == Commit(k, claim(k, caller))

Slash(k, caller, penalty_recipient) == Commit(k, slash(k, caller, penalty_recipient))

SweepAcknowledged(k, caller, owner) == Commit(k, sweep_acknowledged(k, caller, owner))

EmergencyRefund(k, caller, sink) == Commit(k, emergency_refund(k, caller, sink))

\* The cluster clock advances.
TickWithin(horizon) ==
    /\ now + TickSeconds <= horizon
    /\ now' = now + TickSeconds
    /\ UNCHANGED <<alarms, vaults, lamports, permits, probe>>

Tick == TickWithin(MaxTime)

\* The parameters of create_alarm are read only once both accounts have been
\* created, and the instruction before an attested ack only once the window
\* and expiry checks have passed: a call that stops earlier is drawn once.
CreateParams(k) ==
    IF CreateAlarm_accounts(View(k), k[1]).err = "Ok"
    THEN AlarmTimeChoices \X DeadlineChoices \X DepositChoices \X RouteChoices
         \X DestinationChoices
    ELSE {<<TickSeconds, TickSeconds, 0, 0, None>>}

PrevIxInputs(k, caller, nonce, exp_ts) ==
    IF ack_awake_attested(k, caller, nonce, exp_ts, None).err = "MissingEd25519Verify"
    THEN PrevIxChoices(k, caller, nonce, exp_ts)
    ELSE {None}

Next ==
    \/ Tick
    \/ \E k \in AlarmKeys : \E p \in CreateParams(k) :
          CreateAlarm(k, p[1], p[2], p[3], p[4], p[5])
    \/ \E k \in AlarmKeys, caller \in Users : AckAwake(k, caller)
    \/ \E k \in AlarmKeys, caller \in Users, nonce \in 1..MaxNonce,
          exp_ts \in ExpiryChoices :
          \E prev_ix \in PrevIxInputs(k, caller, nonce, exp_ts) :
              AckAwakeAttested(k, caller, nonce, exp_ts, prev_ix)
    \/ \E k \in AlarmKeys, caller \in Users, sink \in SinkChoices,
          expected_snooze_count \in ExpectedCountChoices :
          Snooze(k, caller, sink, expected_snooze_count)
    \/ \E k \in AlarmKeys, caller \in Users : Claim(k, caller)
    \/ \E k \in AlarmKeys, caller \in Users, penalty_recipient \in Accounts :
          Slash(k, caller, penalty_recipient)
    \/ \E k \in AlarmKeys, caller \in Users, owner \in Users :
          SweepAcknowledged(k, caller, owner)
    \/ \E k \in AlarmKeys, caller \in Users, sink \in SinkChoices :
          EmergencyRefund(k, caller, sink)

Spec == Init /\ [][Next]_vars

\* ------------------------------------------------------- two alarms of one owner
\* The program with two alarms of the same owner, who pays for both from one
\* wallet, over a short stretch of time and with few inputs per call.
PairIds == {1, 2}
PairKeys == {"alice"} \X PairIds

InitPair ==
    /\ now = 0
    /\ alarms = [k \in PairKeys |-> DefaultAlarm]
    /\ vaults = [k \in PairKeys |-> ClosedVault]
    /\ lamports = [a \in Accounts |-> IF a = "alice" THEN InitialWallet ELSE 0]
    /\ permits = {}
    /\ probe = NoProbe

PairCreateParams ==
    {TickSeconds} \X {3 * TickSeconds}
    \X {MIN_DEPOSIT_LAMPORTS, 2 * MIN_DEPOSIT_LAMPORTS}
    \X {0} \X {None}

PairPrevIx(k, caller) == {None, Some(GoodPermit(k, caller, 1, now))}

NextPair ==
    \/ TickWithin(MaxPairTicks * TickSeconds)
    \/ \E k \in PairKeys : \E p \in PairCreateParams :
          CreateAlarm(k, p[1], p[2], p[3], p[4], p[5])
    \/ \E k \in PairKeys, caller \in Users : AckAwake(k, caller)
    \/ \E k \in PairKeys, caller \in Users : \E prev_ix \in PairPrevIx(k, caller) :
          AckAwakeAttested(k, caller, 1, now, prev_ix)
    \/ \E k \in PairKeys, caller \in Users :
          Snooze(k, caller, BURN_SINK, alarms[k].snooze_count)
    \/ \E k \in PairKeys, caller \in Users : Claim(k, caller)
    \/ \E k \in PairKeys, caller \in Users : Slash(k, caller, BURN_SINK)
    \/ \E k \in PairKeys, caller \in Users : SweepAcknowledged(k, caller, k[1])
    \/ \E k \in PairKeys, caller \in Users : EmergencyRefund(k, caller, BURN_SINK)

SpecPair == InitPair /\ [][NextPair]_vars

\* ------------------------------------------------- the time windows, on their own
\* The four window helpers applied to every (alarm_time, deadline, now) of a
\* small range.
WindowInputs == (0..MaxProbeTime) \X (0..MaxProbeTime) \X (0..MaxProbeTime)

InitWindows ==
    /\ now = 0
    /\ alarms = [k \in AlarmKeys |-> DefaultAlarm]
    /\ vaults = [k \in AlarmKeys |-> ClosedVault]
    /\ lamports = [a \in Accounts |-> 0]
    /\ permits = {}
    /\ \E in \in WindowInputs : probe = [fn |-> "windows", args |-> in, out |-> <<>>]

ApplyWindows ==
    /\ probe.fn = "windows"
    /\ probe.out = <<>>
    /\ probe' = [probe EXCEPT !.out =
                    << is_refund_window(probe.args[1], probe.args[3]),
                       is_claim_window(probe.args[1], probe.args[2], probe.args[3]),
                       is_slash_window(probe.args[2], probe.args[3]),
                       is_snooze_window(probe.args[1], probe.args[2], probe.args[3]) >>]
    /\ UNCHANGED <<now, alarms, vaults, lamports, permits>>

SpecWindows == InitWindows /\ [][ApplyWindows]_vars

\* ------------------------------------------------- the arithmetic helpers, on their own
\* snooze_cost applied to amounts around the rounding and overflow edges and to
\* every snooze_count up to past the word width, together with its value at the
\* next count.
SnoozeCostInputs ==
    ((0..20) \cup {99, 100, 101, 1000, MIN_DEPOSIT_LAMPORTS,
                   U64_MAX \div 10 - 1, U64_MAX \div 10, U64_MAX \div 10 + 1,
                   U64_MAX \div 2, U64_MAX - 1, U64_MAX})
    \X (0..(WordBits + 1))

InitSnoozeCost ==
    /\ now = 0
    /\ alarms = [k \in AlarmKeys |-> DefaultAlarm]
    /\ vaults = [k \in AlarmKeys |-> ClosedVault]
    /\ lamports = [a \in Accounts |-> 0]
    /\ permits = {}
    /\ \E in \in SnoozeCostInputs :
          probe = [fn |-> "snooze_cost", args |-> in, out |-> <<>>]

ApplySnoozeCost ==
    /\ probe.fn = "snooze_cost"
    /\ probe.out = <<>>
    /\ probe' = [probe EXCEPT !.out =
                    << snooze_cost(probe.args[1], probe.args[2]),
                       snooze_cost(probe.args[1], probe.args[2] + 1) >>]
    /\ UNCHANGED <<now, alarms, vaults, lamports, permits>>

SpecSnoozeCostHelper == InitSnoozeCost /\ [][ApplySnoozeCost]_vars

\* cap_at_rent_exempt applied to every (desired, current_lamports, min_balance)
\* drawn from small amounts, the amounts around the vault's minimum and the
\* largest amounts.
CapInputs ==
    LET amounts == {0, 1, 2, MinBalance - 1, MinBalance, MinBalance + 1,
                    U64_MAX - 1, U64_MAX}
    IN amounts \X amounts \X amounts

InitCap ==
    /\ now = 0
    /\ alarms = [k \in AlarmKeys |-> DefaultAlarm]
    /\ vaults = [k \in AlarmKeys |-> ClosedVault]
    /\ lamports = [a \in Accounts |-> 0]
    /\ permits = {}
    /\ \E in \in CapInputs :
          probe = [fn |-> "cap_at_rent_exempt", args |-> in, out |-> <<>>]

ApplyCap ==
    /\ probe.fn = "cap_at_rent_exempt"
    /\ probe.out = <<>>
    /\ probe' = [probe EXCEPT !.out =
                    << cap_at_rent_exempt(probe.args[1], probe.args[2],
                                          probe.args[3]) >>]
    /\ UNCHANGED <<now, alarms, vaults, lamports, permits>>

SpecCap == InitCap /\ [][ApplyCap]_vars

\* emergency_penalty applied to small amounts and to the amounts around the
\* largest one whose product with the percentage still fits.
PenaltyInputs ==
    (0..100) \cup {MIN_DEPOSIT_LAMPORTS, U64_MAX \div 5 - 1, U64_MAX \div 5,
                   U64_MAX \div 5 + 1, U64_MAX \div 2, U64_MAX - 1, U64_MAX}

InitPenalty ==
    /\ now = 0
    /\ alarms = [k \in AlarmKeys |-> DefaultAlarm]
    /\ vaults = [k \in AlarmKeys |-> ClosedVault]
    /\ lamports = [a \in Accounts |-> 0]
    /\ permits = {}
    /\ \E in \in PenaltyInputs :
          probe = [fn |-> "emergency_penalty", args |-> <<in>>, out |-> <<>>]

ApplyPenalty ==
    /\ probe.fn = "emergency_penalty"
    /\ probe.out = <<>>
    /\ probe' = [probe EXCEPT !.out = << emergency_penalty(probe.args[1]) >>]
    /\ UNCHANGED <<now, alarms, vaults, lamports, permits>>

SpecPenalty == InitPenalty /\ [][ApplyPenalty]_vars

\* ======================================================================== claims
Live(k) == alarms[k].init
Terminal(k) == alarms[k].init /\ alarms[k].status \in {"Claimed", "Slashed"}

RECURSIVE SumOver(_, _)
SumOver(f, S) ==
    IF S = {} THEN 0
    ELSE LET x == CHOOSE y \in S : TRUE IN f[x] + SumOver(f, S \ {x})

\* All lamports of the ledger: the wallets, the burn sink, the vaults and the
\* rent held by the PermitNonce accounts.
Total == SumOver(lamports, Accounts)
         + SumOver([k \in AlarmKeys |-> vaults[k].lamports], AlarmKeys)
         + Cardinality(permits) * PermitNonce_minimum_balance

\* The inputs an attested ack is called with in Next.
AttestedInputs(k) ==
    UNION { { <<c[1], c[2], c[3], prev_ix>> :
                prev_ix \in PrevIxInputs(k, c[1], c[2], c[3]) } :
            c \in Users \X (1..MaxNonce) \X ExpiryChoices }

OthersUnchanged(k) ==
    \A j \in AlarmKeys \ {k} : alarms'[j] = alarms[j] /\ vaults'[j] = vaults[j]

\* ---- C1
\* Every call of every instruction on a Claimed or Slashed alarm returns an error.
C1_AllCallsFail ==
    \A k \in AlarmKeys : Terminal(k) =>
        /\ \A caller \in Users : ack_awake(k, caller).err # "Ok"
        /\ \A i \in AttestedInputs(k) :
              ack_awake_attested(k, i[1], i[2], i[3], i[4]).err # "Ok"
        /\ \A caller \in Users, sink \in SinkChoices, e \in ExpectedCountChoices :
              snooze(k, caller, sink, e).err # "Ok"
        /\ \A caller \in Users : claim(k, caller).err # "Ok"
        /\ \A caller \in Users, r \in Accounts : slash(k, caller, r).err # "Ok"
        /\ \A caller \in Users, o \in Users : sweep_acknowledged(k, caller, o).err # "Ok"
        /\ \A caller \in Users, sink \in SinkChoices :
              emergency_refund(k, caller, sink).err # "Ok"

\* No step taken while an alarm is Claimed or Slashed changes that alarm, its
\* vault, any balance or the consumed nonces.
C1_TerminalFrame ==
    \A k \in AlarmKeys : Terminal(k) =>
        /\ alarms'[k] = alarms[k]
        /\ vaults'[k] = vaults[k]
        /\ OthersUnchanged(k) => (lamports' = lamports /\ permits' = permits)

\* C1: terminal statuses are absorbing: once an alarm is Claimed or Slashed,
\* every call of AckAwake, AckAwakeAttested, Snooze, Claim, Slash,
\* SweepAcknowledged and EmergencyRefund on it fails, at any time and for any
\* caller, and the alarm's fields and all balances stay as they are.
C1_TerminalAbsorbing == [](C1_AllCallsFail) /\ [][C1_TerminalFrame]_vars

\* C1 witness: a Claimed alarm while the clock is still inside its claim window,
\* where only the status stands between a caller and a second claim or an ack.
C1_Witness ==
    \E k \in AlarmKeys :
        /\ Terminal(k)
        /\ alarms[k].status = "Claimed"
        /\ alarms[k].initial_amount > 0
        /\ is_claim_window(alarms[k].alarm_time, alarms[k].deadline, now)

\* ---- C2
\* C2: while a vault is open its balance is at least the rent-exempt minimum and
\* the amount above the minimum covers remaining_amount; the vault an emergency
\* refund has debited, before it is closed, is not below the minimum either.
C2_VaultCoversRemaining ==
    \A k \in AlarmKeys :
        /\ vaults[k].open =>
              /\ vaults[k].lamports >= Rent_minimum_balance
              /\ vaults[k].lamports - Rent_minimum_balance >= alarms[k].remaining_amount
        /\ \A caller \in Users, sink \in SinkChoices :
              LET r == process_emergency_refund(
                           EmergencyRefund_accounts(View(k), caller, sink), now)
              IN r.err = "Ok" => r.vault.lamports >= Rent_minimum_balance

\* C2 witness: an open vault that two snoozes have debited.
C2_Witness ==
    \E k \in AlarmKeys :
        /\ vaults[k].open
        /\ alarms[k].snooze_count >= 2
        /\ vaults[k].lamports < Rent_minimum_balance + alarms[k].initial_amount

C4_TerminalIffClosed ==
    \A k \in AlarmKeys : Live(k) =>
        /\ Terminal(k) <=> ~vaults[k].open
        /\ Terminal(k) => (alarms[k].remaining_amount = 0 /\ vaults[k].lamports = 0)

\* C4 witness: an alarm with a deposit that has been claimed.
C4_Witness ==
    \E k \in AlarmKeys :
        /\ alarms[k].init
        /\ alarms[k].status = "Claimed"
        /\ alarms[k].initial_amount > 0
        /\ ~vaults[k].open

\* ---- C5
\* C5: every created alarm has deadline > alarm_time, remaining_amount <=
\* initial_amount and snooze_count <= MAX_SNOOZE_COUNT.
C5_AlarmInvariants ==
    \A k \in AlarmKeys : Live(k) =>
        /\ alarms[k].deadline > alarms[k].alarm_time
        /\ alarms[k].remaining_amount <= alarms[k].initial_amount
        /\ alarms[k].snooze_count <= MAX_SNOOZE_COUNT

\* C5 witness: an alarm that has been snoozed three times and is still open.
C5_Witness ==
    \E k \in AlarmKeys :
        /\ alarms[k].init
        /\ alarms[k].snooze_count >= 3
        /\ alarms[k].remaining_amount > 0
        /\ alarms[k].remaining_amount < alarms[k].initial_amount

\* ---- C6
\* The ledger is as it was before the call.
Untouched(k, L) ==
    /\ L.alarm = alarms[k]
    /\ L.vault = vaults[k]
    /\ L.lamports = lamports
    /\ L.permits = permits

FailedCallOutcomes(k) ==
    { Outcome(View(k), r) : r \in { x \in
        { create_alarm(k, p[1], p[2], p[3], p[4], p[5]) : p \in CreateParams(k) }
        \cup { ack_awake(k, c) : c \in Users }
        \cup { ack_awake_attested(k, i[1], i[2], i[3], i[4]) : i \in AttestedInputs(k) }
        \cup { snooze(k, c[1], c[2], c[3]) :
                  c \in Users \X SinkChoices \X ExpectedCountChoices }
        \cup { claim(k, c) : c \in Users }
        \cup { slash(k, c[1], c[2]) : c \in Users \X Accounts }
        \cup { sweep_acknowledged(k, c[1], c[2]) : c \in Users \X Users }
        \cup { emergency_refund(k, c[1], c[2]) : c \in Users \X SinkChoices } :
        x.err # "Ok" } }

AllowedStatusChanges ==
    { <<"Created", "Acknowledged">>, <<"Created", "Claimed">>,
      <<"Created", "Slashed">>, <<"Acknowledged", "Claimed">>,
      <<"Acknowledged", "Slashed">> }

\* C7: an alarm is created in status Created and stays in existence, and every
\* change of its status is one of Created -> Acknowledged, Created -> Claimed,
\* Created -> Slashed, Acknowledged -> Claimed, Acknowledged -> Slashed.
C7_StatusLifecycle ==
    [][ \A k \in AlarmKeys :
          /\ alarms[k].init => alarms'[k].init
          /\ (~alarms[k].init /\ alarms'[k].init) => alarms'[k].status = "Created"
          /\ (alarms[k].init /\ alarms'[k].status # alarms[k].status)
             => <<alarms[k].status, alarms'[k].status>> \in AllowedStatusChanges ]_vars

\* C7 witness: an alarm that went Created -> Acknowledged (by an attested ack)
\* -> Claimed.
C7_Witness ==
    \E k \in AlarmKeys :
        /\ alarms[k].init
        /\ alarms[k].status = "Claimed"
        /\ \E n \in 1..MaxNonce : <<k, n>> \in permits

\* ---- C8
\* C8: for every alarm_time, deadline and now, is_snooze_window equals
\* is_claim_window, and when deadline > alarm_time exactly one of
\* is_refund_window (now < alarm_time), is_claim_window (alarm_time <= now <
\* deadline) and is_slash_window (now >= deadline) is true.
C8_WindowsPartition ==
    (probe.fn = "windows" /\ probe.out # <<>>) =>
        LET alarm_time == probe.args[1]
            deadline == probe.args[2]
            current_time == probe.args[3]
            refund == probe.out[1]
            claimw == probe.out[2]
            slashw == probe.out[3]
            snoozew == probe.out[4]
        IN /\ snoozew = claimw
           /\ deadline > alarm_time =>
                 /\ refund = (current_time < alarm_time)
                 /\ claimw = (alarm_time <= current_time /\ current_time < deadline)
                 /\ slashw = (current_time >= deadline)
                 /\ Cardinality({i \in 1..3 : probe.out[i]}) = 1

\* C8 witness: the windows have been computed for a clock exactly at the deadline
\* of a well-formed alarm.
C8_Witness ==
    /\ probe.fn = "windows"
    /\ probe.out # <<>>
    /\ probe.args[2] > probe.args[1]
    /\ probe.args[3] = probe.args[2]
    /\ probe.out[3]

\* ---- C9
\* C9: CreateAlarm with a deposit, route Donate or Buddy and no destination is
\* rejected, so every alarm with initial_amount > 0 and route Donate or Buddy
\* has a stored penalty_destination.
C9_DestinationStored ==
    \A k \in AlarmKeys :
        (alarms[k].init /\ alarms[k].initial_amount > 0
         /\ alarms[k].penalty_route \in {1, 2})
        => IsSome(alarms[k].penalty_destination)

\* ---- C10
\* What create_alarm returns for each input: the four rejections, the accepted
\* zero deposit, and the accounts a successful call has written.
C10_CreateResult ==
    \A k \in AlarmKeys : \A p \in CreateParams(k) :
        LET r == create_alarm(k, p[1], p[2], p[3], p[4], p[5]) IN
        /\ (p[1] <= now \/ p[2] <= p[1]
            \/ (0 < p[3] /\ p[3] < MIN_DEPOSIT_LAMPORTS)
            \/ p[4] \notin {0, 1, 2}) => r.err # "Ok"
        /\ (/\ ~alarms[k].init
            /\ lamports[k[1]] >= Rent_minimum_balance
            /\ p[1] > now /\ p[2] > p[1] /\ p[3] = 0 /\ p[4] \in {0, 1, 2})
           => r.err = "Ok"
        /\ r.err = "Ok" =>
              /\ r.alarm.init
              /\ r.alarm.status = "Created"
              /\ r.alarm.initial_amount = p[3]
              /\ r.alarm.remaining_amount = p[3]
              /\ r.alarm.snooze_count = 0
              /\ r.vault.open
              /\ r.vault.lamports = Rent_minimum_balance + p[3]

\* Every alarm that comes into existence satisfies the creation checks.
C10_CreatedStep ==
    \A k \in AlarmKeys :
        (~alarms[k].init /\ alarms'[k].init) =>
            /\ alarms'[k].alarm_time > now
            /\ alarms'[k].deadline > alarms'[k].alarm_time
            /\ alarms'[k].initial_amount = 0
               \/ alarms'[k].initial_amount >= MIN_DEPOSIT_LAMPORTS
            /\ alarms'[k].penalty_route \in {0, 1, 2}
            /\ alarms'[k].status = "Created"
            /\ alarms'[k].remaining_amount = alarms'[k].initial_amount
            /\ alarms'[k].snooze_count = 0
            /\ vaults'[k].open
            /\ vaults'[k].lamports = Rent_minimum_balance + alarms'[k].initial_amount

\* C10: CreateAlarm fails, creating nothing, when alarm_time <= now, when
\* deadline <= alarm_time, when 0 < deposit < MIN_DEPOSIT_LAMPORTS or when the
\* route byte is not 0, 1 or 2; a deposit of 0 is accepted; a created alarm has
\* status Created, remaining_amount = initial_amount = deposit, snooze_count 0
\* and a vault holding the minimum balance plus the deposit.
C10_CreateAlarmChecks == [](C10_CreateResult) /\ [][C10_CreatedStep]_vars

\* C10 witness: an alarm created with a deposit of 0, whose vault holds the
\* minimum balance alone.
C10_Witness ==
    \E k \in AlarmKeys :
        /\ alarms[k].init
        /\ alarms[k].status = "Created"
        /\ alarms[k].initial_amount = 0
        /\ vaults[k].open
        /\ vaults[k].lamports = Rent_minimum_balance

\* ---- C11
\* The call failed and the ledger it leaves is the ledger before it.
FailsUnchanged(k, r) == r.err # "Ok" /\ Untouched(k, Outcome(View(k), r))

\* Balances other than a's are as before the call.
OnlyCredited(r, a) == \A b \in Accounts \ {a} : r.lamports[b] = lamports[b]

C12_ClaimGrace ==
    \A k \in AlarmKeys : alarms[k].init =>
        LET a == alarms[k]
            r == claim(k, a.owner) IN
        /\ (/\ a.status = "Acknowledged"
            /\ a.deadline < now /\ now <= a.deadline + CLAIM_GRACE_SECONDS)
           => r.err = "Ok"
        /\ (a.status = "Created" /\ now >= a.deadline) => r.err # "Ok"

\* ---- C13
\* The same Slash with the alarm's status read as Created.
slash_as_created(k, caller, penalty_recipient) ==
    CloseVault(process_slash(Slash_accounts([View(k) EXCEPT !.alarm.status = "Created"]), now, caller, penalty_recipient), penalty_recipient)

ExpectedRecipient(a) == IF a.penalty_route = 0 THEN Some(BURN_SINK) ELSE a.penalty_destination

\* C14: on a Created alarm Slash fails with DeadlineNotPassed at every
\* now < deadline; a Slash that succeeds has named the burn sink (route Burn)
\* or the stored penalty_destination (route Donate or Buddy), credits the
\* vault's whole balance to it and sets status Slashed and remaining_amount 0;
\* from the deadline on, a Slash naming another recipient fails with
\* InvalidPenaltyRecipient and a Slash of a Donate or Buddy alarm with no
\* stored destination fails with PenaltyDestinationNotSet.
C14_SlashEffect ==
    \A k \in AlarmKeys : (alarms[k].init /\ alarms[k].status = "Created") =>
        \A caller \in Users, rcp \in Accounts :
            LET a == alarms[k]
                r == slash(k, caller, rcp)
                expected == ExpectedRecipient(a) IN
            /\ now < a.deadline =>
                  (r.err = "DeadlineNotPassed" /\ FailsUnchanged(k, r))
            /\ r.err = "Ok" =>
                  /\ expected = Some(rcp)
                  /\ r.alarm = [a EXCEPT !.status = "Slashed", !.remaining_amount = 0]
                  /\ r.vault = ClosedVault
                  /\ r.lamports[rcp] = lamports[rcp] + vaults[k].lamports
                  /\ OnlyCredited(r, rcp)
            /\ (now >= a.deadline /\ IsSome(expected) /\ expected # Some(rcp)) =>
                  (r.err = "InvalidPenaltyRecipient" /\ FailsUnchanged(k, r))
            /\ (now >= a.deadline /\ IsNone(expected)) =>
                  (r.err = "PenaltyDestinationNotSet" /\ FailsUnchanged(k, r))

\* C14 witness: a Donate alarm with a deposit and a stored destination, past
\* its deadline, whose Slash naming the destination succeeds.
C14_Witness ==
    \E k \in AlarmKeys :
        /\ alarms[k].init
        /\ alarms[k].status = "Created"
        /\ alarms[k].penalty_route = 1
        /\ alarms[k].remaining_amount > 0
        /\ IsSome(alarms[k].penalty_destination)
        /\ \E caller \in Users :
              slash(k, caller, Unwrap(alarms[k].penalty_destination)).err = "Ok"

\* ---- C15
\* C15: for a Created alarm with route Buddy and a stored destination, at
\* deadline <= now < deadline + BUDDY_ONLY_SECONDS a Slash succeeds for the
\* buddy and fails, changing nothing, for every other caller, and at
\* now >= deadline + BUDDY_ONLY_SECONDS it succeeds for any caller; for routes
\* Burn and Donate it succeeds for any caller from now >= deadline on.
C15_BuddyOnlyWindow ==
    \A k \in AlarmKeys :
        LET a == alarms[k]
            expected == ExpectedRecipient(a) IN
        (a.init /\ a.status = "Created" /\ IsSome(expected) /\ now >= a.deadline) =>
            \A caller \in Users :
                LET r == slash(k, caller, Unwrap(expected)) IN
                IF a.penalty_route = 2 /\ now < a.deadline + BUDDY_ONLY_SECONDS
                THEN /\ caller = Unwrap(expected) => r.err = "Ok"
                     /\ caller # Unwrap(expected) =>
                           /\ FailsUnchanged(k, r)
                           /\ \A rcp \in Accounts : slash(k, caller, rcp).err # "Ok"
                ELSE r.err = "Ok"

\* C15 witness: a Buddy alarm with a deposit inside its buddy-only window,
\* which the owner cannot slash and the buddy can.
C15_Witness ==
    \E k \in AlarmKeys :
        /\ alarms[k].init
        /\ alarms[k].status = "Created"
        /\ alarms[k].penalty_route = 2
        /\ alarms[k].remaining_amount > 0
        /\ alarms[k].penalty_destination = Some("bob")
        /\ now > alarms[k].deadline
        /\ now < alarms[k].deadline + BUDDY_ONLY_SECONDS
        /\ slash(k, alarms[k].owner, "bob").err = "BuddyOnlyWindow"
        /\ slash(k, "bob", "bob").err = "Ok"

\* ---- C16
\* C16: SweepAcknowledged, called by anyone with the alarm's owner account,
\* succeeds exactly when the status is Acknowledged and
\* now > deadline + CLAIM_GRACE_SECONDS; it then sets status Claimed and
\* remaining_amount 0, closes the vault and credits its whole balance to the
\* owner and nothing to any other account; otherwise (at
\* now <= deadline + CLAIM_GRACE_SECONDS, on a Created alarm, or with another
\* account in the owner's place) it fails and changes nothing.
C16_SweepEffect ==
    \A k \in AlarmKeys : alarms[k].init => \A caller \in Users :
        LET a == alarms[k]
            r == sweep_acknowledged(k, caller, a.owner) IN
        /\ r.err = "Ok" <=>
              (a.status = "Acknowledged" /\ now > a.deadline + CLAIM_GRACE_SECONDS)
        /\ r.err = "Ok" =>
              /\ r.alarm = [a EXCEPT !.status = "Claimed", !.remaining_amount = 0]
              /\ r.vault = ClosedVault
              /\ r.lamports[a.owner] = lamports[a.owner] + vaults[k].lamports
              /\ OnlyCredited(r, a.owner)
              /\ r.permits = permits
        /\ r.err # "Ok" => FailsUnchanged(k, r)
        /\ \A o \in Users \ {a.owner} : FailsUnchanged(k, sweep_acknowledged(k, caller, o))

\* C16 witness: an Acknowledged alarm with a deposit, past its claim grace,
\* swept by someone who is not its owner.
C16_Witness ==
    \E k \in AlarmKeys :
        /\ alarms[k].init
        /\ alarms[k].status = "Acknowledged"
        /\ alarms[k].remaining_amount > 0
        /\ \E caller \in Users \ {alarms[k].owner} :
              sweep_acknowledged(k, caller, alarms[k].owner).err = "Ok"

\* ---- C17
\* C17: AckAwake succeeds exactly when the status is Created,
\* alarm_time <= now < deadline and the caller is the alarm's owner; it then
\* changes the status to Acknowledged and nothing else: every other alarm
\* field, the vault, every balance and the nonces stay as they were; a call by
\* anyone else fails and changes nothing.
C17_AckAwakeEffect ==
    \A k \in AlarmKeys : alarms[k].init => \A caller \in Users :
        LET a == alarms[k]
            r == ack_awake(k, caller) IN
        /\ r.err = "Ok" <=>
              /\ a.status = "Created"
              /\ a.alarm_time <= now /\ now < a.deadline
              /\ caller = a.owner
        /\ r.err = "Ok" =>
              /\ r.alarm = [a EXCEPT !.status = "Acknowledged"]
              /\ r.vault = vaults[k]
              /\ r.lamports = lamports
              /\ r.permits = permits
        /\ r.err # "Ok" => FailsUnchanged(k, r)

\* C17 witness: a Created alarm, already snoozed, whose owner's ack succeeds
\* and whose other caller's ack fails.
C17_Witness ==
    \E k \in AlarmKeys :
        /\ alarms[k].init
        /\ alarms[k].snooze_count >= 1
        /\ alarms[k].remaining_amount > 0
        /\ ack_awake(k, alarms[k].owner).err = "Ok"
        /\ \E caller \in Users : ack_awake(k, caller).err = "ConstraintHasOne"

\* ---- C18
\* The fee as the spec writes it, in unbounded arithmetic.
SpecSnoozeCost(a, vault_lamports) ==
    Min(Min(a.remaining_amount, ((a.remaining_amount * 10) \div 100) * 2^a.snooze_count), vault_lamports - Rent_minimum_balance)

\* What Snooze requires besides a positive fee.
SnoozeAllowed(a, caller, sink, e) ==
    /\ a.status = "Created"
    /\ a.alarm_time <= now /\ now < a.deadline
    /\ a.snooze_count < MAX_SNOOZE_COUNT
    /\ caller = a.owner
    /\ sink = BURN_SINK
    /\ e = a.snooze_count

\* C18: a successful Snooze (status Created, alarm_time <= now < deadline,
\* snooze_count < 10, caller = owner) has final_cost = min(min(remaining,
\* floor(remaining * 10 / 100) * 2^snooze_count), vault balance - minimum
\* balance) > 0, moves exactly final_cost from the vault to the burn sink,
\* lowers remaining_amount by final_cost, raises snooze_count by 1 and adds 300
\* to alarm_time and to deadline; with final_cost = 0 it fails with
\* InsufficientDeposit; e.g. remaining 1,000,000 at count 0 costs 100,000 and
\* leaves 900,000.
C18_SnoozeEffect ==
    \A k \in AlarmKeys : alarms[k].init =>
        \A caller \in Users, sink \in SinkChoices, e \in ExpectedCountChoices :
            LET a == alarms[k]
                r == snooze(k, caller, sink, e)
                final_cost == SpecSnoozeCost(a, vaults[k].lamports) IN
            /\ r.err = "Ok" =>
                  /\ SnoozeAllowed(a, caller, sink, e)
                  /\ final_cost > 0
                  /\ r.vault = [vaults[k] EXCEPT !.lamports = @ - final_cost]
                  /\ r.lamports = [lamports EXCEPT ![BURN_SINK] = @ + final_cost]
                  /\ r.alarm = [a EXCEPT !.remaining_amount = @ - final_cost,
                                         !.snooze_count = @ + 1,
                                         !.alarm_time = @ + 300,
                                         !.deadline = @ + 300]
                  /\ r.permits = permits
                  /\ (a.remaining_amount = 1000000 /\ a.snooze_count = 0) =>
                        (final_cost = 100000 /\ r.alarm.remaining_amount = 900000)
            /\ (SnoozeAllowed(a, caller, sink, e) /\ final_cost <= 0) =>
                  r.err = "InsufficientDeposit"
            /\ (SnoozeAllowed(a, caller, sink, e) /\ final_cost > 0
                /\ a.deadline + 300 <= I64_MAX) => r.err = "Ok"

\* C18 witness: an alarm snoozed four times whose fifth snooze succeeds, with
\* the doubled fee above what remains and so capped at it.
C18_Witness ==
    \E k \in AlarmKeys :
        /\ alarms[k].init
        /\ alarms[k].snooze_count = 4
        /\ ((alarms[k].remaining_amount * 10) \div 100) * 16 > alarms[k].remaining_amount
        /\ snooze(k, alarms[k].owner, BURN_SINK, 4).err = "Ok"

\* ---- C19
\* A Snooze whose expected count differs from the stored one fails and changes
\* nothing; one that succeeds had the stored count and raises it by one.
C19_ExpectedCount ==
    \A k \in AlarmKeys : alarms[k].init =>
        \A caller \in Users, sink \in SinkChoices, e \in ExpectedCountChoices :
            LET r == snooze(k, caller, sink, e) IN
            /\ e # alarms[k].snooze_count => FailsUnchanged(k, r)
            /\ r.err = "Ok" =>
                  /\ e = alarms[k].snooze_count
                  /\ r.alarm.snooze_count = e + 1

\* The stored count never goes down, and a step that debits the vault of a
\* live alarm without closing it raises the count by exactly one.
C19_CountStep ==
    \A k \in AlarmKeys : alarms[k].init =>
        /\ alarms'[k].snooze_count >= alarms[k].snooze_count
        /\ alarms'[k].snooze_count <= alarms[k].snooze_count + 1
        /\ (vaults'[k].open /\ vaults'[k].lamports < vaults[k].lamports)
           => alarms'[k].snooze_count = alarms[k].snooze_count + 1

\* C19: Snooze(expected_count) fails with no mutation whenever expected_count
\* differs from the stored snooze_count, a successful Snooze(k) moves the
\* stored count from k to k + 1, and the count never decreases: so for every
\* k at most one Snooze(k) succeeds on an alarm in any run, and a retried
\* duplicate of an applied Snooze never debits the vault again.
C19_SnoozeIdempotent == [](C19_ExpectedCount) /\ [][C19_CountStep]_vars

\* C19 witness: an alarm snoozed twice, on which the next Snooze(2) succeeds
\* and a repeat of the applied Snooze(1) is refused.
C19_Witness ==
    \E k \in AlarmKeys :
        /\ alarms[k].init
        /\ alarms[k].snooze_count = 2
        /\ snooze(k, alarms[k].owner, BURN_SINK, 2).err = "Ok"
        /\ snooze(k, alarms[k].owner, BURN_SINK, 1).err = "InvalidAlarmState"

\* ---- C20
\* The refund penalty as the spec writes it, in unbounded arithmetic.
SpecRefundPenalty(a, vault_lamports) ==
    Min((a.remaining_amount * 5) \div 100, vault_lamports - Rent_minimum_balance)

\* C20: EmergencyRefund, with the burn sink as its sink, succeeds exactly when
\* the status is Created, now < alarm_time and the caller is the owner; it
\* moves penalty = min(floor(remaining * 5 / 100), vault balance - minimum
\* balance) from the vault to the burn sink, closes the vault crediting the
\* rest to the owner, and sets status Claimed and remaining_amount 0; e.g. a
\* deposit of 1,000,000 gives the sink 50,000 and the owner 950,000 plus the
\* minimum balance; at now >= alarm_time it fails and changes nothing.
C20_EmergencyRefundEffect ==
    \A k \in AlarmKeys : alarms[k].init => \A caller \in Users :
        LET a == alarms[k]
            r == emergency_refund(k, caller, BURN_SINK)
            penalty == SpecRefundPenalty(a, vaults[k].lamports) IN
        /\ r.err = "Ok" <=>
              (a.status = "Created" /\ now < a.alarm_time /\ caller = a.owner)
        /\ r.err = "Ok" =>
              /\ penalty >= 0
              /\ r.lamports = [lamports EXCEPT
                                  ![BURN_SINK] = @ + penalty,
                                  ![a.owner] = @ + vaults[k].lamports - penalty]
              /\ r.vault = ClosedVault
              /\ r.alarm = [a EXCEPT !.status = "Claimed", !.remaining_amount = 0]
              /\ r.permits = permits
              /\ a.remaining_amount = 1000000 =>
                    /\ r.lamports[BURN_SINK] = lamports[BURN_SINK] + 50000
                    /\ r.lamports[a.owner] = lamports[a.owner] + 950000 + Rent_minimum_balance
        /\ r.err # "Ok" => FailsUnchanged(k, r)
        /\ \A sink \in SinkChoices \ {BURN_SINK} :
              FailsUnchanged(k, emergency_refund(k, caller, sink))

\* C20 witness: an alarm with a deposit, before its alarm_time, whose owner's
\* emergency refund succeeds and charges a penalty.
C20_Witness ==
    \E k \in AlarmKeys :
        /\ alarms[k].init
        /\ alarms[k].remaining_amount >= MIN_DEPOSIT_LAMPORTS
        /\ now < alarms[k].alarm_time
        /\ emergency_refund(k, alarms[k].owner, BURN_SINK).err = "Ok"
        /\ emergency_refund(k, alarms[k].owner, BURN_SINK).lamports[BURN_SINK] > lamports[BURN_SINK]

\* ---- C21
BeforeAlarmTime(k) ==
    Live(k) /\ alarms[k].status = "Created" /\ now < alarms[k].alarm_time

\* C21: while an alarm is Created and the clock is before its alarm_time, every
\* call of AckAwake, AckAwakeAttested, Snooze, Claim, Slash and
\* SweepAcknowledged on it fails and changes nothing, whoever calls, and the
\* owner's EmergencyRefund to the burn sink succeeds.
C21_OnlyRefundBeforeAlarmTime ==
    \A k \in AlarmKeys : BeforeAlarmTime(k) =>
        /\ \A caller \in Users : FailsUnchanged(k, ack_awake(k, caller))
        /\ \A i \in AttestedInputs(k) :
              FailsUnchanged(k, ack_awake_attested(k, i[1], i[2], i[3], i[4]))
        /\ \A caller \in Users, nonce \in 1..MaxNonce, exp_ts \in ExpiryChoices :
              FailsUnchanged(k, ack_awake_attested(k, caller, nonce, exp_ts,
                                    Some(GoodPermit(k, caller, nonce, exp_ts))))
        /\ \A caller \in Users, sink \in SinkChoices, e \in ExpectedCountChoices :
              FailsUnchanged(k, snooze(k, caller, sink, e))
        /\ \A caller \in Users : FailsUnchanged(k, claim(k, caller))
        /\ \A caller \in Users, r \in Accounts :
              FailsUnchanged(k, slash(k, caller, r))
        /\ \A caller \in Users, o \in Users :
              FailsUnchanged(k, sweep_acknowledged(k, caller, o))
        /\ emergency_refund(k, alarms[k].owner, BURN_SINK).err = "Ok"

\* C21 witness: a Created alarm holding a deposit, one tick before its
\* alarm_time, after the clock has moved since its creation.
C21_Witness ==
    \E k \in AlarmKeys :
        /\ BeforeAlarmTime(k)
        /\ alarms[k].remaining_amount > 0
        /\ now > 0
        /\ now + TickSeconds = alarms[k].alarm_time
        /\ claim(k, alarms[k].owner).err = "TooEarly"
        /\ emergency_refund(k, alarms[k].owner, BURN_SINK).err = "Ok"

\* ---- C22
\* The consumed nonces a call leaves behind.
PermitsAfter(k, r) == Outcome(View(k), r).permits

\* A successful attested ack adds exactly its own (alarm, nonce); a call that
\* presents a consumed pair fails and changes nothing, and the `init` of the
\* PermitNonce account refuses a consumed pair whatever the alarm's status; no
\* failed attested ack and no call of another instruction changes the set.
C22_NonceCalls ==
    \A k \in AlarmKeys :
        /\ \A i \in AttestedInputs(k) :
              LET r == ack_awake_attested(k, i[1], i[2], i[3], i[4]) IN
              /\ r.err = "Ok" =>
                    /\ <<k, i[2]>> \notin permits
                    /\ r.permits = permits \cup {<<k, i[2]>>}
              /\ r.err # "Ok" => PermitsAfter(k, r) = permits
              /\ <<k, i[2]>> \in permits => FailsUnchanged(k, r)
        /\ \A caller \in Users, nonce \in 1..MaxNonce, exp_ts \in ExpiryChoices :
              <<k, nonce>> \in permits =>
                /\ FailsUnchanged(k, ack_awake_attested(k, caller, nonce, exp_ts,
                                      Some(GoodPermit(k, caller, nonce, exp_ts))))
                /\ AckAwakeAttested_accounts(
                       [View(k) EXCEPT !.alarm.status = "Created"],
                       k, alarms[k].owner, nonce).err = "AccountAlreadyInUse"
        /\ \A p \in CreateParams(k) :
              PermitsAfter(k, create_alarm(k, p[1], p[2], p[3], p[4], p[5])) = permits
        /\ \A caller \in Users : PermitsAfter(k, ack_awake(k, caller)) = permits
        /\ \A caller \in Users, sink \in SinkChoices, e \in ExpectedCountChoices :
              PermitsAfter(k, snooze(k, caller, sink, e)) = permits
        /\ \A caller \in Users : PermitsAfter(k, claim(k, caller)) = permits
        /\ \A caller \in Users, r \in Accounts :
              PermitsAfter(k, slash(k, caller, r)) = permits
        /\ \A caller \in Users, o \in Users :
              PermitsAfter(k, sweep_acknowledged(k, caller, o)) = permits
        /\ \A caller \in Users, sink \in SinkChoices :
              PermitsAfter(k, emergency_refund(k, caller, sink)) = permits

\* No step removes a consumed nonce, and a step that adds one adds a single
\* pair, of an alarm that the same step takes from Created to Acknowledged.
C22_NonceStep ==
    /\ permits \subseteq permits'
    /\ permits' # permits =>
          \E k \in AlarmKeys, nonce \in 1..MaxNonce :
              /\ <<k, nonce>> \notin permits
              /\ permits' = permits \cup {<<k, nonce>>}
              /\ alarms[k].status = "Created"
              /\ alarms'[k].status = "Acknowledged"

\* C22: each (alarm, nonce) is accepted at most once: a successful
\* AckAwakeAttested records its pair as consumed, a later AckAwakeAttested with
\* a consumed pair fails with no change, a consumed record is never removed,
\* and neither a failed call nor any other instruction adds one.
C22_NonceConsumedOnce == [](C22_NonceCalls) /\ [][C22_NonceStep]_vars

\* C22 witness: an alarm acknowledged by an attested ack with nonce 2, its
\* pair consumed and nonce 1 still free, while the ack window is still open.
C22_Witness ==
    \E k \in AlarmKeys :
        /\ permits = {<<k, 2>>}
        /\ alarms[k].status = "Acknowledged"
        /\ is_claim_window(alarms[k].alarm_time, alarms[k].deadline, now)
        /\ ack_awake_attested(k, alarms[k].owner, 2, now,
                              Some(GoodPermit(k, alarms[k].owner, 2, now))).err # "Ok"

\* ---- C23
\* The canonical message of a call, as the specification lists its fields.
CanonicalMessage(k, caller, nonce, exp_ts) ==
    <<"solarma", "|", "ack", "|", ATTESTATION_CLUSTER, "|", PROGRAM_ID, "|",
      AlarmPda(k), "|", caller, "|">>
    \o to_string(nonce) \o <<"|">> \o to_string(exp_ts) \o <<"|">>
    \o to_string(ProofType) \o <<"|">> \o proof_hex(ProofHash)

\* Messages the attestation key may have signed that are not the canonical
\* one: each field in turn replaced, a byte dropped, added or altered.
TamperedMessages(k, caller, nonce, exp_ts) ==
    LET msg == CanonicalMessage(k, caller, nonce, exp_ts)
        other_user == CHOOSE u \in Users : u # caller
    IN { [msg EXCEPT ![1] = "other_domain"],
         [msg EXCEPT ![3] = "snooze"],
         [msg EXCEPT ![5] = "mainnet-beta"],
         [msg EXCEPT ![7] = "OtherProgram"],
         [msg EXCEPT ![9] = "alarm_other"],
         [msg EXCEPT ![9] = AlarmPda(<<k[1], k[2] + 1>>)],
         [msg EXCEPT ![11] = other_user],
         [msg EXCEPT ![10] = ":"],
         build_ack_permit_message(ATTESTATION_CLUSTER, PROGRAM_ID, AlarmPda(k),
                                  caller, nonce + 1, exp_ts, ProofType, ProofHash),
         build_ack_permit_message(ATTESTATION_CLUSTER, PROGRAM_ID, AlarmPda(k),
                                  caller, nonce, exp_ts + 1, ProofType, ProofHash),
         build_ack_permit_message(ATTESTATION_CLUSTER, PROGRAM_ID, AlarmPda(k),
                                  caller, exp_ts, nonce, ProofType, ProofHash),
         build_ack_permit_message(ATTESTATION_CLUSTER, PROGRAM_ID, AlarmPda(k),
                                  caller, nonce, exp_ts, ProofType + 1, ProofHash),
         build_ack_permit_message(ATTESTATION_CLUSTER, PROGRAM_ID, AlarmPda(k),
                                  caller, nonce, exp_ts, ProofType,
                                  <<ProofHash[1], ProofHash[2] - 1>>),
         build_ack_permit_message(ATTESTATION_CLUSTER, PROGRAM_ID, AlarmPda(k),
                                  caller, nonce, exp_ts, ProofType,
                                  <<ProofHash[2], ProofHash[1]>>),
         SubSeq(msg, 1, Len(msg) - 1),
         SubSeq(msg, 2, Len(msg)),
         msg \o <<"0">>,
         <<>>,
         [msg EXCEPT ![Len(msg)] = "0"] } \ {msg}

\* The call reaches the inspection of the previous instruction: accounts,
\* window and expiry checks have passed.
ReachesVerify(k, caller, nonce, exp_ts) ==
    ack_awake_attested(k, caller, nonce, exp_ts, None).err = "MissingEd25519Verify"

\* C23: AckAwakeAttested succeeds only if the verified message is byte for
\* byte the canonical message rebuilt from this call's domain, action,
\* cluster, program id, alarm, owner, nonce, expiry, proof_type and
\* proof_hash: a message signed by the attestation key that differs in any
\* field or byte is rejected with InvalidPermitMessage and the alarm stays
\* Created, with nothing else changed.
C23_CanonicalMessageOnly ==
    \A k \in AlarmKeys, caller \in Users, nonce \in 1..MaxNonce,
       exp_ts \in ExpiryChoices :
        LET canonical == CanonicalMessage(k, caller, nonce, exp_ts)
            call(m) == ack_awake_attested(k, caller, nonce, exp_ts,
                                          Some(Ed25519Ix(ATTESTATION_PUBKEY, m)))
        IN IF ReachesVerify(k, caller, nonce, exp_ts)
           THEN /\ call(canonical).err = "Ok"
                /\ \A m \in TamperedMessages(k, caller, nonce, exp_ts) :
                      /\ m # canonical
                      /\ call(m).err = "InvalidPermitMessage"
                      /\ FailsUnchanged(k, call(m))
                      /\ Outcome(View(k), call(m)).alarm.status = "Created"
           ELSE call(canonical).err # "Ok"

\* C23 witness: a Created alarm inside its ack window where the owner's call
\* with the canonical message succeeds and the same call with the message of
\* the next nonce fails with InvalidPermitMessage, nineteen tampered messages
\* being at hand.
C23_Witness ==
    \E k \in AlarmKeys :
        /\ alarms[k].status = "Created"
        /\ now > 0
        /\ ReachesVerify(k, alarms[k].owner, 1, now)
        /\ Cardinality(TamperedMessages(k, alarms[k].owner, 1, now)) = 19
        /\ ack_awake_attested(k, alarms[k].owner, 1, now,
               Some(Ed25519Ix(ATTESTATION_PUBKEY,
                              CanonicalMessage(k, alarms[k].owner, 1, now)))).err = "Ok"
        /\ ack_awake_attested(k, alarms[k].owner, 1, now,
               Some(Ed25519Ix(ATTESTATION_PUBKEY,
                              CanonicalMessage(k, alarms[k].owner, 2, now)))).err
           = "InvalidPermitMessage"

\* ---- C24
\* The previous instruction is an Ed25519 verify record.
IsEd25519Record(prev_ix) ==
    IsSome(prev_ix) /\ Unwrap(prev_ix).program_id = ED25519_PROGRAM_ID

\* The record holds exactly one signature whose public key, signature and
\* message are embedded in the record itself and lie within its bounds.
OneInlineSignature(d) ==
    /\ d.num_signatures = 1
    /\ d.signature_ix = U16_MAX /\ d.pubkey_ix = U16_MAX /\ d.msg_ix = U16_MAX
    /\ d.pubkey_offset + 32 <= d.len
    /\ d.signature_offset + 64 <= d.len
    /\ d.msg_offset + d.msg_size <= d.len

\* C24: AckAwakeAttested is rejected with no change unless the instruction
\* just before it in the transaction is an Ed25519 verify record (else
\* MissingEd25519Verify) holding exactly one signature with public key,
\* signature and message embedded inline and within bounds (else
\* InvalidEd25519Verify) and the embedded public key is ATTESTATION_PUBKEY
\* (else AttestationPubkeyMismatch).
C24_Ed25519RecordRequired ==
    \A k \in AlarmKeys, caller \in Users, nonce \in 1..MaxNonce,
       exp_ts \in ExpiryChoices :
        \A prev_ix \in PrevIxInputs(k, caller, nonce, exp_ts) :
            LET r == ack_awake_attested(k, caller, nonce, exp_ts, prev_ix)
                d == Unwrap(prev_ix).data
            IN /\ r.err # "Ok" => FailsUnchanged(k, r)
               /\ r.err = "Ok" =>
                     /\ IsEd25519Record(prev_ix)
                     /\ OneInlineSignature(d)
                     /\ d.pubkey_bytes = ATTESTATION_PUBKEY
               /\ ReachesVerify(k, caller, nonce, exp_ts) =>
                     IF ~IsEd25519Record(prev_ix)
                     THEN r.err = "MissingEd25519Verify"
                     ELSE IF ~OneInlineSignature(d)
                     THEN r.err = "InvalidEd25519Verify"
                     ELSE IF d.pubkey_bytes # ATTESTATION_PUBKEY
                     THEN r.err \in {"AttestationPubkeyMismatch", "InvalidEd25519Verify"}
                          /\ (d.len >= 16 /\ d.padding = 0
                                => r.err = "AttestationPubkeyMismatch")
                     ELSE r.err # "MissingEd25519Verify"
                          /\ r.err # "AttestationPubkeyMismatch"

\* C24 witness: a Created alarm inside its ack window where the owner's call
\* is refused with each of the three errors (no previous instruction, two
\* signatures in the record, a record signed by another key) and succeeds
\* with the attestation key's record.
C24_Witness ==
    \E k \in AlarmKeys :
        LET owner == alarms[k].owner
            good == GoodPermit(k, owner, 1, now)
            call(prev_ix) == ack_awake_attested(k, owner, 1, now, prev_ix).err
        IN /\ alarms[k].status = "Created"
           /\ ReachesVerify(k, owner, 1, now)
           /\ call(None) = "MissingEd25519Verify"
           /\ call(Some([good EXCEPT !.program_id = "SystemProgram"]))
              = "MissingEd25519Verify"
           /\ call(Some([good EXCEPT !.data.num_signatures = 2]))
              = "InvalidEd25519Verify"
           /\ call(Some([good EXCEPT !.data.msg_ix = 0])) = "InvalidEd25519Verify"
           /\ call(Some([good EXCEPT !.data.msg_offset = 113]))
              = "InvalidEd25519Verify"
           /\ call(Some(Ed25519Ix("mallory_key", good.data.msg_bytes)))
              = "AttestationPubkeyMismatch"
           /\ call(Some(good)) = "Ok"

\* ---- C25
\* The owner's attested ack with the permit signed for this very call.
permitted_ack(k, nonce, exp_ts) ==
    ack_awake_attested(k, alarms[k].owner, nonce, exp_ts,
                       Some(GoodPermit(k, alarms[k].owner, nonce, exp_ts)))

\* C25: with a valid permit, AckAwakeAttested fails with PermitExpired when
\* now > expiry and accepts now = expiry; it stays subject to the ack window
\* (it fails when now < alarm_time or now >= deadline) and to status Created.
C25_PermitExpiry ==
    \A k \in AlarmKeys : Live(k) =>
        \A nonce \in 1..MaxNonce, exp_ts \in ExpiryChoices \cup {now - 1, now + 1} :
            exp_ts >= 0 =>
            LET r == permitted_ack(k, nonce, exp_ts)
                a == alarms[k]
                in_window == now >= a.alarm_time /\ now < a.deadline
            IN /\ a.status = "Created" /\ in_window /\ now > exp_ts =>
                     r.err = "PermitExpired" /\ FailsUnchanged(k, r)
               /\ a.status = "Created" /\ in_window /\ now <= exp_ts =>
                     r.err = "Ok"
               /\ ~in_window => FailsUnchanged(k, r)
               /\ a.status = "Created" /\ now < a.alarm_time => r.err = "TooEarly"
               /\ a.status = "Created" /\ now >= a.deadline => r.err = "DeadlinePassed"
               /\ a.status # "Created" =>
                     r.err = "InvalidAlarmState" /\ FailsUnchanged(k, r)

\* C25 witness: a Created alarm inside its ack window where the permit that
\* expires now is accepted and the one that expired a second ago is refused
\* with PermitExpired.
C25_Witness ==
    \E k \in AlarmKeys :
        /\ alarms[k].status = "Created"
        /\ now > alarms[k].alarm_time
        /\ permitted_ack(k, 1, now).err = "Ok"
        /\ permitted_ack(k, 1, now - 1).err = "PermitExpired"
        /\ permitted_ack(k, 1, now + 1).err = "Ok"

\* ---- C26
\* C26 as stated: from the same state at the same time a successful
\* AckAwakeAttested leaves the alarm and all balances exactly as a successful
\* AckAwake leaves them, the added consumed-nonce record being the only
\* difference between the two resulting states.
C26_AttestedSameAsAckAwake ==
    \A k \in AlarmKeys : Live(k) =>
        \A i \in AttestedInputs(k) :
            LET attested == ack_awake_attested(k, i[1], i[2], i[3], i[4])
                plain == ack_awake(k, i[1])
            IN attested.err = "Ok" =>
                  /\ plain.err = "Ok"
                  /\ attested = [plain EXCEPT !.permits = @ \cup {<<k, i[2]>>}]

\* C26, amended: from the same state at the same time a successful
\* AckAwakeAttested leaves the alarm, the vault and every balance but the
\* owner's exactly as a successful AckAwake leaves them; the two resulting
\* states differ in the added consumed-nonce record and in the owner's
\* wallet, which has paid that record's rent-exempt minimum.
C26_AttestedSameAsAckAwakeButRent ==
    \A k \in AlarmKeys : Live(k) =>
        \A i \in AttestedInputs(k) :
            LET attested == ack_awake_attested(k, i[1], i[2], i[3], i[4])
                plain == ack_awake(k, i[1])
            IN attested.err = "Ok" =>
                  /\ plain.err = "Ok"
                  /\ attested.alarm = plain.alarm
                  /\ attested.vault = plain.vault
                  /\ attested.permits = plain.permits \cup {<<k, i[2]>>}
                  /\ <<k, i[2]>> \notin plain.permits
                  /\ attested.lamports =
                        [plain.lamports EXCEPT
                            ![alarms[k].owner] = @ - PermitNonce_minimum_balance]

\* C26 witness: a snoozed Created alarm inside its ack window, where both the
\* owner's AckAwake and the owner's AckAwakeAttested with a valid permit
\* succeed.
C26_Witness ==
    \E k \in AlarmKeys :
        /\ alarms[k].status = "Created"
        /\ alarms[k].snooze_count > 0
        /\ alarms[k].remaining_amount > 0
        /\ ack_awake(k, alarms[k].owner).err = "Ok"
        /\ permitted_ack(k, 1, now).err = "Ok"
        /\ permitted_ack(k, 1, now).lamports[alarms[k].owner]
           = ack_awake(k, alarms[k].owner).lamports[alarms[k].owner]
             - PermitNonce_minimum_balance

\* ---- C27
\* No intermediate product of snooze_cost overflows the word: remaining * 10,
\* the shift 1 << count, and base * 2^count.
SnoozeCostFits(remaining, count) ==
    /\ remaining <= U64_MAX \div 10
    /\ count < WordBits
    /\ \/ (remaining * 10) \div 100 = 0
       \/ 2^count <= U64_MAX \div ((remaining * 10) \div 100)

\* C27: snooze_cost(remaining, count) never exceeds remaining, is 0 when
\* remaining is 0, and does not decrease from count to count + 1, wherever it
\* is defined; where no intermediate product overflows the word it equals
\* min(remaining, floor(remaining * 10 / 100) * 2^count), and on overflow, a
\* count of the word width or more included, it returns None.
C27_SnoozeCost ==
    (probe.fn = "snooze_cost" /\ probe.out # <<>>) =>
        LET remaining == probe.args[1]
            count == probe.args[2]
            cost == probe.out[1]
            next_cost == probe.out[2]
        IN /\ IsSome(cost) => Unwrap(cost) <= remaining
           /\ IsSome(cost) /\ remaining = 0 => Unwrap(cost) = 0
           /\ IsSome(cost) /\ IsSome(next_cost) => Unwrap(next_cost) >= Unwrap(cost)
           /\ IF SnoozeCostFits(remaining, count)
              THEN cost = Some(Min(remaining,
                                   ((remaining * 10) \div 100) * 2^count))
              ELSE cost = None
           /\ cost = None \/ (cost \subseteq 0..U64_MAX /\ Cardinality(cost) = 1)

\* C27 witness: a cost that reaches the cap (remaining 100, count 4: 10 * 16
\* capped at 100) while the next count is still defined.
C27_Witness ==
    /\ probe.fn = "snooze_cost"
    /\ probe.args = <<100, 4>>
    /\ probe.out = <<Some(100), Some(100)>>

\* ---- C28
\* C28: cap_at_rent_exempt(desired, balance, min_balance) equals
\* min(desired, max(0, balance - min_balance)): it never exceeds desired, never
\* exceeds balance - min_balance when balance >= min_balance (so that
\* balance - result >= min_balance), and is 0 when balance < min_balance.
C28_CapAtRentExempt ==
    (probe.fn = "cap_at_rent_exempt" /\ probe.out # <<>>) =>
        LET desired == probe.args[1]
            balance == probe.args[2]
            min_balance == probe.args[3]
            result == probe.out[1]
            above == IF balance - min_balance > 0 THEN balance - min_balance ELSE 0
        IN /\ result = (IF desired <= above THEN desired ELSE above)
           /\ result <= desired
           /\ balance >= min_balance =>
                 (result <= balance - min_balance /\ balance - result >= min_balance)
           /\ balance < min_balance => result = 0

\* C28 witness: a deduction larger than what the vault holds above its
\* minimum, cut down to that one lamport.
C28_Witness ==
    /\ probe.fn = "cap_at_rent_exempt"
    /\ probe.args[1] = 2
    /\ probe.args[2] = probe.args[3] + 1
    /\ probe.args[3] > 2
    /\ probe.out = <<1>>

\* ---- C29
\* C29: emergency_penalty(remaining) never exceeds remaining and equals
\* floor(remaining * 5 / 100) whenever remaining * 5 fits in the word; when
\* remaining * 5 overflows it returns None.
C29_EmergencyPenalty ==
    (probe.fn = "emergency_penalty" /\ probe.out # <<>>) =>
        LET remaining == probe.args[1]
            penalty == probe.out[1]
        IN /\ IsSome(penalty) => Unwrap(penalty) <= remaining
           /\ IF remaining <= U64_MAX \div 5
              THEN penalty = Some((remaining * 5) \div 100)
              ELSE penalty = None

\* C29 witness: the smallest amount whose product with the percentage no
\* longer fits, answered with None.
C29_Witness ==
    /\ probe.fn = "emergency_penalty"
    /\ probe.args[1] = U64_MAX \div 5 + 1
    /\ probe.out = <<None>>

\* ---- C30
\* What a call does, apart from the ledger it starts from: its result, the
\* alarm and vault it leaves, what it adds to or takes from each balance, and
\* the nonces it consumes.
Effect(k, r) ==
    LET o == Outcome(View(k), r) IN
    [ err |-> r.err,
      alarm |-> o.alarm,
      vault |-> o.vault,
      credit |-> [a \in Accounts |-> o.lamports[a] - lamports[a]],
      consumed |-> o.permits \ permits ]

\* The effects of the calls on alarm k that do not charge the caller's wallet.
UnpaidEffects(k) ==
    [ ack |-> [c \in Users |-> Effect(k, ack_awake(k, c))],
      snooze |-> [i \in Users \X SinkChoices \X (0..1) |->
                     Effect(k, snooze(k, i[1], i[2], i[3]))],
      claim |-> [c \in Users |-> Effect(k, claim(k, c))],
      slash |-> [i \in Users \X Accounts |-> Effect(k, slash(k, i[1], i[2]))],
      sweep |-> [i \in Users \X Users |->
                     Effect(k, sweep_acknowledged(k, i[1], i[2]))],
      refund |-> [i \in Users \X SinkChoices |->
                     Effect(k, emergency_refund(k, i[1], i[2]))] ]

\* The effects of the calls on alarm k whose caller pays for an account.
PaidEffects(k) ==
    [ create |-> [p \in PairCreateParams |->
                     Effect(k, create_alarm(k, p[1], p[2], p[3], p[4], p[5]))],
      attested |-> [c \in Users |->
                     Effect(k, ack_awake_attested(k, c, 1, now,
                                   Some(GoodPermit(k, c, 1, now))))] ]

\* A step that is a successful call on another alarm than k: that alarm or
\* its vault has changed, while k, its vault, its nonces and the clock are as
\* before.
CallElsewhere(k) ==
    /\ now' = now
    /\ alarms'[k] = alarms[k]
    /\ vaults'[k] = vaults[k]
    /\ {p \in permits' : p[1] = k} = {p \in permits : p[1] = k}
    /\ \E a \in PairKeys \ {k} : alarms'[a] # alarms[a] \/ vaults'[a] # vaults[a]

\* No step changes two alarms or their vaults: a call on one alarm leaves every
\* other alarm and its vault as they were.
AtMostOneAlarmChanges ==
    \A a \in PairKeys : \A b \in PairKeys \ {a} :
        (alarms'[a] # alarms[a] \/ vaults'[a] # vaults[a])
            => (alarms'[b] = alarms[b] /\ vaults'[b] = vaults[b])

\* C30 as stated: a call on one alarm leaves every other alarm and its vault
\* unchanged, and whether any operation on alarm B succeeds depends only on
\* B's own state, the clock and the caller, so that calls on different alarms
\* commute: after a call elsewhere every call on B, CreateAlarm included, has
\* the result and the effect it had before.
C30_AlarmsIndependent ==
    [][ /\ AtMostOneAlarmChanges
        /\ \A b \in PairKeys : CallElsewhere(b) =>
              /\ UnpaidEffects(b)' = UnpaidEffects(b)
              /\ PaidEffects(b)' = PaidEffects(b) ]_vars

\* C30, amended: a call on one alarm leaves every other alarm and its vault
\* unchanged; for AckAwake, Snooze, Claim, Slash, SweepAcknowledged and
\* EmergencyRefund, whether the call on alarm B succeeds, and what it changes,
\* depends only on B's own state, the clock and the caller, so these calls
\* commute with calls on other alarms.  (CreateAlarm and AckAwakeAttested
\* charge the owner's wallet, which calls on the owner's other alarms change.)
C30_AlarmsIndependentButWallet ==
    [][ /\ AtMostOneAlarmChanges
        /\ \A b \in PairKeys : CallElsewhere(b) =>
              UnpaidEffects(b)' = UnpaidEffects(b) ]_vars

\* C30 witness: two Created alarms of one owner inside their ack window, the
\* first snoozed and the second not, after which the owner's wallet cannot
\* pay for what it could have paid before the two were created.
C30_Witness ==
    /\ DOMAIN alarms = PairKeys
    /\ \A k \in PairKeys : alarms[k].init /\ alarms[k].status = "Created"
    /\ alarms[<<"alice", 1>>].snooze_count = 1
    /\ alarms[<<"alice", 2>>].snooze_count = 0
    /\ alarms[<<"alice", 2>>].remaining_amount = alarms[<<"alice", 2>>].initial_amount
    /\ vaults[<<"alice", 2>>].lamports
       = Rent_minimum_balance + alarms[<<"alice", 2>>].initial_amount
    /\ lamports["alice"] < MIN_DEPOSIT_LAMPORTS

\* ---- C31
\* C31: in no state and at no time do a Claim and a SweepAcknowledged both
\* succeed, whoever calls them: an Acknowledged alarm is claimed only at
\* times that are not after deadline + CLAIM_GRACE_SECONDS and swept only at
\* times after it; and at every time of the claim window
\* [alarm_time, deadline), which lies inside the grace-extended window
\* [alarm_time, deadline + CLAIM_GRACE_SECONDS], the owner's Claim of a
\* Created or Acknowledged alarm is allowed.
C31_ClaimSweepDisjoint ==
    \A k \in AlarmKeys : Live(k) =>
        LET a == alarms[k]
            claimed == \E c \in Users : claim(k, c).err = "Ok"
            swept == \E c \in Users, o \in Users :
                        sweep_acknowledged(k, c, o).err = "Ok"
        IN /\ ~(claimed /\ swept)
           /\ claimed => now <= a.deadline + CLAIM_GRACE_SECONDS
           /\ swept => (a.status = "Acknowledged"
                        /\ now > a.deadline + CLAIM_GRACE_SECONDS)
           /\ is_claim_window(a.alarm_time, a.deadline, now) =>
                 /\ a.alarm_time <= now /\ now <= a.deadline + CLAIM_GRACE_SECONDS
                 /\ a.status \in {"Created", "Acknowledged"} =>
                       claim(k, a.owner).err = "Ok"

\* C31 witness: an Acknowledged alarm one tick past its claim grace, where
\* the sweep succeeds and the owner's claim is refused with DeadlinePassed.
C31_Witness ==
    \E k \in AlarmKeys :
        /\ alarms[k].status = "Acknowledged"
        /\ now = alarms[k].deadline + CLAIM_GRACE_SECONDS + TickSeconds
        /\ sweep_acknowledged(k, "bob", alarms[k].owner).err = "Ok"
        /\ claim(k, alarms[k].owner).err = "DeadlinePassed"

\* ---- C32
\* Every call that would close the vault of alarm k fails: the owner's or
\* anyone's Claim and EmergencyRefund, Slash to any recipient, and
\* SweepAcknowledged.
NoCloseSucceeds(k) ==
    /\ \A c \in Users : claim(k, c).err # "Ok"
    /\ \A c \in Users, sink \in SinkChoices : emergency_refund(k, c, sink).err # "Ok"
    /\ \A c \in Users, r \in Accounts : slash(k, c, r).err # "Ok"
    /\ \A c \in Users, o \in Users : sweep_acknowledged(k, c, o).err # "Ok"

\* The step resolves alarm k: its status becomes Claimed or Slashed.
Resolves(k) ==
    /\ alarms[k].init /\ alarms[k].status \in {"Created", "Acknowledged"}
    /\ alarms'[k].status \in {"Claimed", "Slashed"}

\* What the step adds to an account.
Credited(acc) == lamports'[acc] - lamports[acc]

C32_OnePayoutStep ==
    \A k \in AlarmKeys :
        LET owner == alarms[k].owner
            paid == vaults[k].lamports
        IN /\ (vaults[k].open /\ ~vaults'[k].open) <=> Resolves(k)
           /\ Resolves(k) =>
                 /\ vaults'[k] = ClosedVault
                 /\ \A acc \in Accounts : Credited(acc) >= 0
                 /\ SumOver([acc \in Accounts |-> Credited(acc)], Accounts) = paid
                 /\ IF alarms'[k].status = "Slashed"
                    THEN /\ Credited(owner) = 0
                         /\ \E to \in Accounts : Credited(to) = paid
                    ELSE /\ \A acc \in Accounts \ {owner, BURN_SINK} : Credited(acc) = 0
                         /\ Credited(BURN_SINK) > 0 => now < alarms[k].alarm_time
                         /\ Credited(owner) = paid - Credited(BURN_SINK)
                 /\ NoCloseSucceeds(k)'
           /\ Terminal(k) =>
                 /\ Terminal(k)'
                 /\ vaults'[k] = ClosedVault
                 /\ lamports' = lamports

\* C32: however the calls of the owner (Claim, EmergencyRefund), a slasher
\* (Slash) and a sweeper (SweepAcknowledged) on one alarm interleave, at most
\* one vault-closing call ever succeeds: the step that closes the vault is
\* the step that resolves the alarm, it pays the vault's balance out once,
\* to a penalty recipient and nothing to the owner when it is a Slash and to
\* the owner otherwise (less the refund penalty burned by an
\* EmergencyRefund), after it every closing call fails, and from then on the
\* vault stays closed and no balance changes.
C32_AtMostOneClose == [][C32_OnePayoutStep]_vars

\* C32 witness: a Slashed alarm whose deposit went to the buddy, reached at
\* the first tick after the deadline, where owner and slasher were both in
\* reach of the vault one tick earlier.
C32_Witness ==
    \E k \in AlarmKeys :
        /\ alarms[k].status = "Slashed"
        /\ alarms[k].initial_amount > 0
        /\ ~vaults[k].open
        /\ now = alarms[k].deadline
        /\ lamports["bob"] > 0
        /\ NoCloseSucceeds(k)

\* ---- C33
\* On an Acknowledged alarm every Slash is refused for the status.
AcknowledgedRefusesSlash ==
    \A k \in AlarmKeys : (Live(k) /\ alarms[k].status = "Acknowledged") =>
        \A caller \in Users, r \in Accounts :
            slash(k, caller, r).err = "InvalidAlarmState"

\* A step from an Acknowledged alarm leaves it Acknowledged or makes it
\* Claimed, never Slashed; it credits no account but the owner's, and when it
\* closes the vault the owner receives the vault's whole balance, by a call
\* that was a Claim or a SweepAcknowledged.
AcknowledgedPaysOwner ==
    \A k \in AlarmKeys : (Live(k) /\ alarms[k].status = "Acknowledged") =>
        LET owner == alarms[k].owner IN
        /\ alarms'[k].status \in {"Acknowledged", "Claimed"}
        /\ \A acc \in Accounts \ {owner} : lamports'[acc] = lamports[acc]
        /\ alarms'[k].status = "Claimed" =>
              /\ vaults'[k] = ClosedVault
              /\ lamports'[owner] = lamports[owner] + vaults[k].lamports
              /\ \/ claim(k, owner).err = "Ok"
                 \/ \E c \in Users : sweep_acknowledged(k, c, owner).err = "Ok"
              /\ \A c \in Users, sink \in SinkChoices :
                    emergency_refund(k, c, sink).err # "Ok"
        /\ alarms'[k].status = "Acknowledged" => vaults'[k] = vaults[k]

CleanAtReturn(k, r) == Untouched(k, [r EXCEPT !.err = "Ok"])

\* The vault balance, the sink balance and the alarm fields hold their
\* pre-call values in the call's view.
NamedValuesKept(k, r) ==
    /\ r.alarm = alarms[k]
    /\ r.vault.lamports = vaults[k].lamports
    /\ r.lamports[BURN_SINK] = lamports[BURN_SINK]

\* The results of the calls of every instruction on alarm k in this state.
CallResults(k) ==
    { create_alarm(k, p[1], p[2], p[3], p[4], p[5]) : p \in CreateParams(k) }
    \cup { ack_awake(k, c) : c \in Users }
    \cup { ack_awake_attested(k, i[1], i[2], i[3], i[4]) : i \in AttestedInputs(k) }
    \cup { snooze(k, c[1], c[2], c[3]) :
              c \in Users \X SinkChoices \X ExpectedCountChoices }
    \cup { claim(k, c) : c \in Users }
    \cup { slash(k, c[1], c[2]) : c \in Users \X Accounts }
    \cup { sweep_acknowledged(k, c[1], c[2]) : c \in Users \X Users }
    \cup { emergency_refund(k, c[1], c[2]) : c \in Users \X SinkChoices }

\* C34 as stated: in every operation every check that can fail is evaluated
\* before the first mutation, so that where a failure is detected the vault
\* balance, the sink balance and all alarm fields still hold their pre-call
\* values.
C34_ChecksBeforeMutation ==
    \A k \in AlarmKeys : \A r \in CallResults(k) :
        r.err # "Ok" => NamedValuesKept(k, r)

\* C34, amended: AckAwake, Claim, Slash, SweepAcknowledged and EmergencyRefund
\* evaluate every check that can fail before their first mutation, and so
\* does Snooze for its window, limit, expected-count, cost and rent checks;
\* AckAwakeAttested fails with the alarm, the vault and the sink at their
\* pre-call values, after its nonce record was created.  The overflow checks
\* of Snooze on remaining_amount - final_cost, snooze_count + 1,
\* alarm_time + 300 and deadline + 300 are detected after the vault was
\* debited and the sink credited, and the handler checks of CreateAlarm after
\* its accounts were created and the vault funded with rent; there the
\* pre-call values are those the ledger keeps by discarding the failed call's
\* writes.
C34_ChecksBeforeMutationButSnoozeUpdate ==
    \A k \in AlarmKeys :
        /\ \A r \in { ack_awake(k, c) : c \in Users }
                    \cup { claim(k, c) : c \in Users }
                    \cup { slash(k, c[1], c[2]) : c \in Users \X Accounts }
                    \cup { sweep_acknowledged(k, c[1], c[2]) : c \in Users \X Users }
                    \cup { emergency_refund(k, c[1], c[2]) : c \in Users \X SinkChoices } :
              r.err # "Ok" => CleanAtReturn(k, r)
        /\ \A i \in AttestedInputs(k) :
              LET r == ack_awake_attested(k, i[1], i[2], i[3], i[4]) IN
              r.err # "Ok" =>
                  /\ NamedValuesKept(k, r)
                  /\ Untouched(k, Outcome(View(k), r))
        /\ \A c \in Users \X SinkChoices \X ExpectedCountChoices :
              LET r == snooze(k, c[1], c[2], c[3])
                  cost == snooze_inline_cost(alarms[k].remaining_amount,
                                             alarms[k].snooze_count) IN
              /\ r.err \notin {"Ok", "Overflow"} => CleanAtReturn(k, r)
              /\ (r.err = "Overflow" /\ IsNone(cost)) => CleanAtReturn(k, r)
              /\ (r.err = "Overflow" /\ IsSome(cost)) =>
                    /\ r.vault.lamports < vaults[k].lamports
                    /\ r.lamports[BURN_SINK] - lamports[BURN_SINK]
                          = vaults[k].lamports - r.vault.lamports
                    /\ Untouched(k, Outcome(View(k), r))
        /\ \A p \in CreateParams(k) :
              LET r == create_alarm(k, p[1], p[2], p[3], p[4], p[5])
                  a == CreateAlarm_accounts(View(k), k[1]) IN
              r.err # "Ok" =>
                  /\ a.err # "Ok" => CleanAtReturn(k, r)
                  /\ a.err = "Ok" => r.vault.lamports >= Rent_minimum_balance
                  /\ Untouched(k, Outcome(View(k), r))

\* C34 witness: a Created alarm with a deposit whose deadline is the largest
\* timestamp, in its snooze window: the owner's Snooze fails with Overflow on
\* deadline + 300 after it has debited the vault, credited the sink and
\* written remaining_amount, snooze_count and alarm_time.
C34_Witness ==
    \E k \in AlarmKeys :
        /\ Live(k) /\ alarms[k].status = "Created"
        /\ alarms[k].deadline = I64_MAX
        /\ now >= alarms[k].alarm_time
        /\ LET r == snooze(k, alarms[k].owner, BURN_SINK, alarms[k].snooze_count) IN
           /\ r.err = "Overflow"
           /\ r.vault.lamports < vaults[k].lamports
           /\ r.lamports[BURN_SINK] > lamports[BURN_SINK]
           /\ r.alarm.remaining_amount < alarms[k].remaining_amount
           /\ r.alarm.snooze_count = alarms[k].snooze_count + 1
           /\ r.alarm.alarm_time = alarms[k].alarm_time + DEFAULT_SNOOZE_EXTENSION_SECONDS
           /\ r.alarm.deadline = alarms[k].deadline

\* ---- C35
\* The cost process_snooze computes inline is the helper's, value or overflow,
\* for every amount and every count the snooze limit lets through.
SnoozeInlineMatchesHelper ==
    \A i \in SnoozeCostInputs : i[2] < MAX_SNOOZE_COUNT =>
        snooze_inline_cost(i[1], i[2]) = snooze_cost(i[1], i[2])

\* The penalty process_emergency_refund computes inline is the helper's.
RefundInlineMatchesHelper ==
    \A amount \in PenaltyInputs :
        refund_inline_penalty(amount) = emergency_penalty(amount)

\* The handler of CreateAlarm lets a set of parameters past its checks (it
\* returns Ok, or fails only for the owner's funds).
HandlerAccepts(k, p) ==
    create_alarm(k, p[1], p[2], p[3], p[4], p[5]).err \in {"Ok", "InsufficientFunds"}

\* On an unused alarm address the handler accepts the parameters the helper
\* accepts.
CreateAcceptsWhatHelperAccepts ==
    \A k \in AlarmKeys : CreateAlarm_accounts(View(k), k[1]).err = "Ok" =>
        \A p \in CreateParams(k) :
            HandlerAccepts(k, p)
                <=> validate_alarm_params(p[1], p[2], now, p[3], p[4], IsSome(p[5])) = "Ok"

\* C35: for every input the handlers can reach, the cost computed inline by
\* process_snooze equals helpers::snooze_cost, the penalty computed inline by
\* process_emergency_refund equals helpers::emergency_penalty, and the
\* CreateAlarm handler accepts exactly the parameters that
\* helpers::validate_alarm_params accepts.
C35_InlineMatchesHelpers ==
    /\ SnoozeInlineMatchesHelper
    /\ RefundInlineMatchesHelper
    /\ CreateAcceptsWhatHelperAccepts

\* ---- C36
\* C36: the exponential fee exhausts the deposit before the snooze limit is
\* reached.  An alarm's deposit is 0 or at least MIN_DEPOSIT_LAMPORTS, its
\* snooze_count (the number of its successful Snoozes) is at most 5 in every
\* reachable state, and no Snooze fails with MaxSnoozesReached; once the count
\* is 5 the remaining_amount is 0, every further Snooze fails, and the one
\* that passes the account, window and expected-count checks fails with
\* InsufficientDeposit.
C36_FeeExhaustsDeposit ==
    \A k \in AlarmKeys : Live(k) =>
        LET a == alarms[k] IN
        /\ a.initial_amount = 0 \/ a.initial_amount >= MIN_DEPOSIT_LAMPORTS
        /\ a.snooze_count <= 5
        /\ \A c \in Users, sink \in SinkChoices, e \in ExpectedCountChoices :
              snooze(k, c, sink, e).err # "MaxSnoozesReached"
        /\ a.snooze_count = 5 =>
              /\ a.remaining_amount = 0
              /\ \A c \in Users, sink \in SinkChoices, e \in ExpectedCountChoices :
                    LET r == snooze(k, c, sink, e) IN
                    /\ r.err # "Ok"
                    /\ ( /\ a.status = "Created" /\ vaults[k].open
                         /\ c = a.owner /\ sink = BURN_SINK /\ e = a.snooze_count
                         /\ now >= a.alarm_time /\ now < a.deadline )
                       => r.err = "InsufficientDeposit"

\* C36 witness: a Created alarm with a deposit that has been snoozed five
\* times and is in its snooze window again: nothing remains, and the owner's
\* sixth Snooze fails with InsufficientDeposit.
C36_Witness ==
    \E k \in AlarmKeys :
        /\ Live(k) /\ alarms[k].status = "Created"
        /\ alarms[k].initial_amount >= MIN_DEPOSIT_LAMPORTS
        /\ alarms[k].snooze_count = 5
        /\ alarms[k].remaining_amount = 0
        /\ now >= alarms[k].alarm_time /\ now < alarms[k].deadline
        /\ snooze(k, alarms[k].owner, BURN_SINK, 5).err
              = "InsufficientDeposit"

\* ---- C37
\* The times from now on at which the outcome of a closing call on alarm k
\* can change: now, the alarm time, the deadline, the end of the buddy-only
\* window and the first instant after the claim grace.
LaterTimes(k) ==
    { t \in { now, alarms[k].alarm_time, alarms[k].deadline,
              alarms[k].deadline + BUDDY_ONLY_SECONDS,
              alarms[k].deadline + CLAIM_GRACE_SECONDS + 1 } :
        t >= now /\ t <= I64_MAX }

\* The closing calls on alarm k made at time t.
ClosingCallsAt(k, t) ==
    { CloseVault(process_claim(Claim_accounts(View(k), c), t), c) : c \in Users }
    \cup { CloseVault(process_slash(Slash_accounts(View(k)), t, c[1], c[2]), c[2]) :
              c \in Users \X Accounts }
    \cup { CloseVault(process_sweep_acknowledged(
                          SweepAcknowledged_accounts(View(k), c[2]), t), c[2]) :
              c \in Users \X Users }
    \cup { CloseVault(process_emergency_refund(
                          EmergencyRefund_accounts(View(k), c[1], c[2]), t), c[1]) :
              c \in Users \X SinkChoices }

\* C37: no vault balance is ever locked for good: from every reachable state
\* with a Created or Acknowledged alarm there are a later time, a caller and
\* a recipient for which Claim, Slash, SweepAcknowledged or EmergencyRefund
\* succeeds and closes the vault, also for an alarm with route Donate or Buddy
\* that was created without a penalty destination and whose deadline has
\* passed.
C37_NeverLocked ==
    \A k \in AlarmKeys :
        (Live(k) /\ alarms[k].status \in {"Created", "Acknowledged"}) =>
            \E t \in LaterTimes(k) : \E r \in ClosingCallsAt(k, t) :
                r.err = "Ok" /\ r.vault = ClosedVault

\* ---- C38
\* A successful Snooze made less than 300 seconds after the alarm time leaves
\* a Created alarm whose new alarm time is still ahead of the clock.
SnoozeReopensRefund ==
    \A k \in AlarmKeys :
        ( /\ alarms'[k].snooze_count = alarms[k].snooze_count + 1
          /\ now < alarms[k].alarm_time + DEFAULT_SNOOZE_EXTENSION_SECONDS )
        => /\ alarms'[k].status = "Created"
           /\ alarms'[k].alarm_time
                 = alarms[k].alarm_time + DEFAULT_SNOOZE_EXTENSION_SECONDS
           /\ now' = now
           /\ now' < alarms'[k].alarm_time

\* While a snoozed alarm is Created and the clock has not reached its alarm
\* time, the owner's Snooze, AckAwake and Claim fail with TooEarly and the
\* owner's EmergencyRefund succeeds, sending 5% of the remaining amount to
\* the sink and the rest of the vault to the owner.
SnoozedAlarmRefundable ==
    \A k \in AlarmKeys :
        ( /\ Live(k) /\ alarms[k].status = "Created"
          /\ alarms[k].snooze_count > 0
          /\ now < alarms[k].alarm_time )
        => LET a == alarms[k]
               r == emergency_refund(k, a.owner, BURN_SINK)
               penalty == (a.remaining_amount * EMERGENCY_REFUND_PENALTY_PERCENT) \div 100
           IN
           /\ snooze(k, a.owner, BURN_SINK, a.snooze_count).err = "TooEarly"
           /\ ack_awake(k, a.owner).err = "TooEarly"
           /\ claim(k, a.owner).err = "TooEarly"
           /\ a.remaining_amount < a.initial_amount
           /\ r.err = "Ok"
           /\ r.alarm.status = "Claimed"
           /\ r.vault = ClosedVault
           /\ r.lamports[BURN_SINK] = lamports[BURN_SINK] + penalty
           /\ r.lamports[a.owner] = lamports[a.owner] + vaults[k].lamports - penalty

\* C38: after a successful Snooze at now < alarm_time + 300 the alarm is back
\* in the refund window: at that same now a second Snooze, AckAwake and Claim
\* fail with TooEarly and EmergencyRefund by the owner succeeds again,
\* charging 5% of the reduced remaining_amount, until the clock reaches the
\* new alarm_time.
C38_SnoozeReopensRefundWindow ==
    [](SnoozedAlarmRefundable) /\ [][SnoozeReopensRefund]_vars

\* C38 witness: an alarm with a deposit that has just been snoozed for the
\* first time, at its alarm time: the clock is 300 seconds before the new
\* alarm time, a second Snooze is too early and the refund charges a
\* positive penalty.
C38_Witness ==
    \E k \in AlarmKeys :
        /\ Live(k) /\ alarms[k].status = "Created"
        /\ alarms[k].snooze_count = 1
        /\ alarms[k].remaining_amount > 0
        /\ now = alarms[k].alarm_time - DEFAULT_SNOOZE_EXTENSION_SECONDS
        /\ snooze(k, alarms[k].owner, BURN_SINK, 1).err = "TooEarly"
        /\ LET r == emergency_refund(k, alarms[k].owner, BURN_SINK) IN
           r.err = "Ok" /\ r.lamports[BURN_SINK] > lamports[BURN_SINK]

\* ---- C39
\* Every parameter choice of CreateAlarm, whether or not the accounts are free.
AllCreateParams ==
    AlarmTimeChoices \X DeadlineChoices \X DepositChoices \X RouteChoices
    \X DestinationChoices

\* On an existing Alarm record every CreateAlarm fails on the account.
SecondCreateFails ==
    \A k \in AlarmKeys : Live(k) =>
        \A p \in AllCreateParams :
            create_alarm(k, p[1], p[2], p[3], p[4], p[5]).err = "AccountAlreadyInUse"

\* An Alarm record, once created, stays; a terminal alarm keeps its status
\* and its vault stays closed.
AlarmRecordStays ==
    \A k \in AlarmKeys :
        /\ Live(k) => alarms'[k].init
        /\ Terminal(k) => /\ alarms'[k] = alarms[k]
                          /\ vaults'[k] = ClosedVault

\* C39: an (owner, alarm_id) pair is usable by CreateAlarm at most once in any
\* run: the Alarm record stays in existence after the alarm becomes Claimed
\* or Slashed (only the Vault is closed), so a second CreateAlarm for the pair
\* always fails and never resets a terminal alarm to Created or reopens its
\* vault.
C39_CreateOnce == [](SecondCreateFails) /\ [][AlarmRecordStays]_vars

\* C39 witness: a terminal alarm with its vault closed, at a time at which
\* CreateAlarm with parameters the handler would accept for a new pair, and
\* that the owner can pay for, fails because the Alarm record exists.
C39_Witness ==
    \E k \in AlarmKeys :
        /\ Terminal(k) /\ vaults[k] = ClosedVault
        /\ \E p \in AllCreateParams :
              /\ process_create_alarm(
                     CreateAlarm_accounts([View(k) EXCEPT !.alarm = DefaultAlarm],
                                          k[1]),
                     k[1], now, p[1], p[2], p[3], p[4], p[5]).err = "Ok"
              /\ p[3] > 0
              /\ create_alarm(k, p[1], p[2], p[3], p[4], p[5]).err
                    = "AccountAlreadyInUse"

\* ---- C40
\* The alarm time and the deadline an alarm was created with, recovered from
\* its snooze count.
CreatedAlarmTime(a) == a.alarm_time - DEFAULT_SNOOZE_EXTENSION_SECONDS * a.snooze_count

CreatedDeadline(a) == a.deadline - DEFAULT_SNOOZE_EXTENSION_SECONDS * a.snooze_count

\* The creation parameters are the ones CreateAlarm was called with.
TimesFromCreation ==
    \A k \in AlarmKeys : Live(k) =>
        /\ CreatedAlarmTime(alarms[k]) \in AlarmTimeChoices
        /\ CreatedDeadline(alarms[k]) \in DeadlineChoices
        /\ CreatedDeadline(alarms[k]) > CreatedAlarmTime(alarms[k])

\* A step on an existing alarm keeps its gap and its creation times; it
\* changes the times only when it is a successful Snooze, which adds 300 to
\* both and one to the count; it never changes the other creation fields.
\* The step that creates the alarm starts it with a count of 0.
OnlySnoozeShiftsTimes ==
    \A k \in AlarmKeys :
        LET a == alarms[k]
            b == alarms'[k] IN
        /\ Live(k) =>
              /\ b.deadline - b.alarm_time = a.deadline - a.alarm_time
              /\ CreatedAlarmTime(b) = CreatedAlarmTime(a)
              /\ CreatedDeadline(b) = CreatedDeadline(a)
              /\ b.initial_amount = a.initial_amount
              /\ b.owner = a.owner
              /\ b.penalty_route = a.penalty_route
              /\ b.penalty_destination = a.penalty_destination
              /\ <<b.alarm_time, b.deadline, b.snooze_count>>
                    # <<a.alarm_time, a.deadline, a.snooze_count>>
                 => /\ snooze(k, a.owner, BURN_SINK, a.snooze_count).err = "Ok"
                    /\ b.snooze_count = a.snooze_count + 1
                    /\ b.alarm_time = a.alarm_time + DEFAULT_SNOOZE_EXTENSION_SECONDS
                    /\ b.deadline = a.deadline + DEFAULT_SNOOZE_EXTENSION_SECONDS
                    /\ b.status = "Created"
        /\ (~Live(k) /\ b.init) => b.snooze_count = 0

\* C40: only Snooze changes an alarm's times, and it shifts both by the same
\* amount: in every reachable state deadline - alarm_time is the gap chosen at
\* creation and alarm_time is the created alarm_time plus 300 * snooze_count;
\* every other operation leaves alarm_time, deadline, snooze_count,
\* initial_amount, owner, penalty_route and penalty_destination unchanged.
C40_OnlySnoozeShiftsTimes == [](TimesFromCreation) /\ [][OnlySnoozeShiftsTimes]_vars

\* C40 witness: an alarm created with alarm time 60 and deadline 180 that was
\* snoozed twice and then acknowledged: its times are 660 and 780, the gap
\* still 120.
C40_Witness ==
    \E k \in AlarmKeys :
        /\ Live(k) /\ alarms[k].status = "Acknowledged"
        /\ alarms[k].snooze_count = 2
        /\ alarms[k].alarm_time = TickSeconds + 2 * DEFAULT_SNOOZE_EXTENSION_SECONDS
        /\ alarms[k].deadline = 3 * TickSeconds + 2 * DEFAULT_SNOOZE_EXTENSION_SECONDS
        /\ alarms[k].remaining_amount < alarms[k].initial_amount

====
